---- MODULE Spec2Model ----
(***************************************************************************)
(* A model of ArchiveBox's config layering (plugantic/base_configset.py),  *)
(* its legacy INI -> TOML migration (plugantic/ini_to_toml.py) and the     *)
(* browser binary providers (plugins_pkg/puppeteer, plugins_pkg/playwright)*)
(*                                                                         *)
(* Text is modelled as sequences of one-character strings, so that the     *)
(* conversions (str.lower, str.isdigit, int, ast.literal_eval, json.loads, *)
(* json.dumps, the TOML value grammar) are computed on characters.         *)
(***************************************************************************)
EXTENDS Integers, Sequences, FiniteSets, TLC

(***************************************************************************)
(* Characters and strings                                                  *)
(***************************************************************************)
Digits == {"0", "1", "2", "3", "4", "5", "6", "7", "8", "9"}

DigitVal(c) ==
    CASE c = "0" -> 0 [] c = "1" -> 1 [] c = "2" -> 2 [] c = "3" -> 3
      [] c = "4" -> 4 [] c = "5" -> 5 [] c = "6" -> 6 [] c = "7" -> 7
      [] c = "8" -> 8 [] c = "9" -> 9

DigitChar(n) ==
    CASE n = 0 -> "0" [] n = 1 -> "1" [] n = 2 -> "2" [] n = 3 -> "3"
      [] n = 4 -> "4" [] n = 5 -> "5" [] n = 6 -> "6" [] n = 7 -> "7"
      [] n = 8 -> "8" [] n = 9 -> "9"

\* str.lower() on one character (the upper-case letters the inputs use)
LowerChar(c) ==
    CASE c = "T" -> "t" [] c = "F" -> "f" [] c = "N" -> "n" [] c = "Y" -> "y"
      [] c = "R" -> "r" [] c = "U" -> "u" [] c = "E" -> "e" [] c = "A" -> "a"
      [] c = "L" -> "l" [] c = "S" -> "s" [] c = "O" -> "o"
      [] OTHER -> c

\* str.lower()
Lower(s) == [i \in 1..Len(s) |-> LowerChar(s[i])]

\* Characters outside 0-9 that Unicode classes as digits, such as
\* SUPERSCRIPT TWO (U+00B2), written here "^2"
OtherDigits == {"^2"}

\* non-empty and every character one of 0-9
IsDecimal(s) == Len(s) > 0 /\ \A i \in 1..Len(s) : s[i] \in Digits

\* str.isdigit(): non-empty and every character a digit
IsDigit(s) == Len(s) > 0 /\ \A i \in 1..Len(s) : s[i] \in Digits \cup OtherDigits

\* int(s) for a string of decimal digits
RECURSIVE DigitsToInt(_)
DigitsToInt(s) ==
    IF Len(s) = 0 THEN 0
    ELSE 10 * DigitsToInt(SubSeq(s, 1, Len(s) - 1)) + DigitVal(s[Len(s)])

\* str(n) for a natural number
RECURSIVE NatToStr(_)
NatToStr(n) ==
    IF n < 10 THEN <<DigitChar(n)>>
    ELSE Append(NatToStr(n \div 10), DigitChar(n % 10))

\* str(n) for an integer
IntToStr(n) == IF n < 0 THEN <<"-">> \o NatToStr(0 - n) ELSE NatToStr(n)

StartsWith(s, w) == Len(s) >= Len(w) /\ SubSeq(s, 1, Len(w)) = w

Drop(s, n) == SubSeq(s, n + 1, Len(s))

\* s without its leading spaces
SkipWs(s) ==
    LET idx == {i \in 1..Len(s) : s[i] # " "}
    IN  IF idx = {} THEN <<>>
        ELSE Drop(s, (CHOOSE i \in idx : \A j \in idx : i <= j) - 1)

\* the length of the longest prefix of s made of digits
DigitRun(s) ==
    LET stop == {i \in 1..Len(s) : s[i] \notin Digits}
    IN  IF stop = {} THEN Len(s)
        ELSE (CHOOSE i \in stop : \A j \in stop : i <= j) - 1

(***************************************************************************)
(* Typed values (Python objects), tagged by their type                     *)
(***************************************************************************)
VNone == [t |-> "none"]
VBool(b) == [t |-> "bool", b |-> b]
VInt(n) == [t |-> "int", n |-> n]
VFloat(f) == [t |-> "float", f |-> f]
VStr(s) == [t |-> "str", s |-> s]
VList(xs) == [t |-> "list", xs |-> xs]
VTuple(xs) == [t |-> "tuple", xs |-> xs]
VDict(kvs) == [t |-> "dict", kvs |-> kvs]
\* the outcome of a call that raised err instead of returning a value
VRaise(err) == [t |-> "raise", err |-> err]
VSet(xs) == [t |-> "set", xs |-> xs]

(***************************************************************************)
(* The value grammars of the three parsers the code calls:                 *)
(*   "py"   ast.literal_eval      (ini_to_toml.py:25)                      *)
(*   "json" json.loads            (ini_to_toml.py:30)                      *)
(*   "toml" tomllib, the reader behind TomlConfigSettingsSource            *)
(*          (base_configset.py:73)                                         *)
(* A parse result is [ok, v, rest]: the value read and the text after it.  *)
(***************************************************************************)
PFail == [ok |-> FALSE, v |-> VNone, rest |-> <<>>]
POk(v, rest) == [ok |-> TRUE, v |-> v, rest |-> rest]

Keywords(d) ==
    CASE d = "py" ->
           {[w |-> <<"T", "r", "u", "e">>, v |-> VBool(TRUE)],
            [w |-> <<"F", "a", "l", "s", "e">>, v |-> VBool(FALSE)],
            [w |-> <<"N", "o", "n", "e">>, v |-> VNone]}
      [] d = "json" ->
           {[w |-> <<"t", "r", "u", "e">>, v |-> VBool(TRUE)],
            [w |-> <<"f", "a", "l", "s", "e">>, v |-> VBool(FALSE)],
            [w |-> <<"n", "u", "l", "l">>, v |-> VNone]}
      [] d = "toml" ->
           {[w |-> <<"t", "r", "u", "e">>, v |-> VBool(TRUE)],
            [w |-> <<"f", "a", "l", "s", "e">>, v |-> VBool(FALSE)]}

\* the keyword among hits (the keywords s starts with), if any
PKeywordOf(hits, s) ==
    IF hits = {} THEN PFail
    ELSE POk((CHOOSE k \in hits : TRUE).v, Drop(s, Len((CHOOSE k \in hits : TRUE).w)))

PKeyword(d, s) == PKeywordOf({k \in Keywords(d) : StartsWith(s, k.w)}, s)

\* a digit string without its trailing zeros
RECURSIVE StripZeros(_)
StripZeros(s) ==
    IF Len(s) > 0 /\ s[Len(s)] = "0" THEN StripZeros(SubSeq(s, 1, Len(s) - 1))
    ELSE s

\* An integer or decimal literal. Python takes a sign of either kind (and
\* spaces after it), a run of zeros ("00") but no other leading zero, and
\* "1." as a float; JSON takes "-" only, TOML both signs, and neither a
\* leading zero.
NumSigned(d, s) ==
    Len(s) > 0 /\ (s[1] = "-" \/ (s[1] = "+" /\ d \in {"py", "toml"}))

NumBody(d, s) ==
    IF ~NumSigned(d, s) THEN s
    ELSE IF d = "py" THEN SkipWs(Drop(s, 1)) ELSE Drop(s, 1)

\* the digits after a "." at the start of the text after the integer part
FracRun(after) ==
    IF Len(after) > 0 /\ after[1] = "." THEN DigitRun(Drop(after, 1)) ELSE 0

\* the number with integer digits ds, followed by the text after, of which
\* m digits are its fraction
PNumParts(d, neg, ds, after, m) ==
    LET isflt == Len(after) > 0 /\ after[1] = "." /\ (m > 0 \/ d = "py")
        zeros == \A i \in 1..Len(ds) : ds[i] = "0"
        lead  == Len(ds) > 1 /\ ds[1] = "0" /\ ~(d = "py" /\ (zeros \/ isflt))
    IN  IF Len(ds) = 0 \/ lead THEN PFail
        ELSE IF isflt
             THEN POk(VFloat([neg |-> neg, ip |-> DigitsToInt(ds),
                              frac |-> StripZeros(SubSeq(after, 2, m + 1))]),
                      Drop(after, m + 1))
             ELSE POk(VInt(IF neg THEN 0 - DigitsToInt(ds) ELSE DigitsToInt(ds)),
                      after)

PNumAfter(d, neg, ds, after) == PNumParts(d, neg, ds, after, FracRun(after))

PNumDigits(d, neg, body, n) == PNumAfter(d, neg, SubSeq(body, 1, n), Drop(body, n))

PNumber(d, s) ==
    PNumDigits(d, NumSigned(d, s) /\ s[1] = "-", NumBody(d, s), DigitRun(NumBody(d, s)))

\* the body of a quoted string up to its closing quote q; a backslash
\* escapes a quote or a backslash, except in a TOML literal ('...') string
RECURSIVE PStrBody(_, _, _, _)
PStrBody(d, s, q, acc) ==
    IF Len(s) = 0 THEN PFail
    ELSE IF s[1] = q THEN POk(VStr(acc), Drop(s, 1))
    ELSE IF s[1] = "\\" /\ ~(d = "toml" /\ q = "'")
         THEN IF Len(s) >= 2 /\ s[2] \in {"\"", "\\"} \cup (IF d = "py" THEN {"'"} ELSE {})
              THEN PStrBody(d, Drop(s, 2), q, Append(acc, s[2]))
              ELSE PFail
    ELSE PStrBody(d, Drop(s, 1), q, Append(acc, s[1]))

Quotes(d) == IF d = "json" THEN {"\""} ELSE {"\"", "'"}

\* characters of a TOML bare key
BareKeyChars ==
    Digits \cup {"_", "-", "a", "b", "c", "e", "f", "l", "n", "o", "r", "s",
                 "t", "u", "y", "x", "A", "E", "F", "L", "N", "O", "R", "S",
                 "T", "U", "Y"}

BareRun(s) ==
    LET stop == {i \in 1..Len(s) : s[i] \notin BareKeyChars}
    IN  IF stop = {} THEN Len(s)
        ELSE (CHOOSE i \in stop : \A j \in stop : i <= j) - 1

RECURSIVE PVal(_, _)
RECURSIVE PItems(_, _, _, _, _)
RECURSIVE PPairs(_, _, _, _)

\* The items of a list, tuple or set up to the closing character: [ok, v
\* (the items), rest, comma (a comma was read)]. A comma before the closing
\* character is taken by Python and TOML, not by JSON.
PItemsFail == [ok |-> FALSE, v |-> <<>>, rest |-> <<>>, comma |-> FALSE]

\* after the item r, at s2: a comma and more items, or the closing character
PItemsNext(d, r, s2, close, acc, afterComma) ==
    IF ~r.ok \/ Len(s2) = 0 THEN PItemsFail
    ELSE IF s2[1] = "," THEN PItems(d, Drop(s2, 1), close, Append(acc, r.v), TRUE)
    ELSE IF s2[1] = close
         THEN [ok |-> TRUE, v |-> Append(acc, r.v), rest |-> Drop(s2, 1),
               comma |-> afterComma]
    ELSE PItemsFail

PItemsItem(d, r, close, acc, afterComma) ==
    PItemsNext(d, r, SkipWs(r.rest), close, acc, afterComma)

PItemsAt(d, s1, close, acc, afterComma) ==
    IF Len(s1) = 0 THEN PItemsFail
    ELSE IF s1[1] = close
         THEN [ok |-> IF afterComma THEN d \in {"py", "toml"} /\ acc # <<>> ELSE TRUE,
               v |-> acc, rest |-> Drop(s1, 1), comma |-> afterComma]
    ELSE PItemsItem(d, PVal(d, s1), close, acc, afterComma)

PItems(d, s, close, acc, afterComma) == PItemsAt(d, SkipWs(s), close, acc, afterComma)

\* a key of a dict (Python: any literal; JSON: a string; TOML: a bare or
\* quoted key)
PKeyBare(s, n) == IF n = 0 THEN PFail ELSE POk(VStr(SubSeq(s, 1, n)), Drop(s, n))

PKeyVal(d, r) == IF r.ok /\ (d = "py" \/ r.v.t = "str") THEN r ELSE PFail

PKey(d, s) ==
    IF d = "toml" /\ Len(s) > 0 /\ s[1] \notin Quotes(d) THEN PKeyBare(s, BareRun(s))
    ELSE PKeyVal(d, PVal(d, s))

\* the key/value pairs of a dict up to "}": after the key k and the value
\* r, at s3, a comma and more pairs, or "}"
PPairsNext(d, k, r, s3, acc) ==
    IF ~r.ok \/ Len(s3) = 0 THEN PFail
    ELSE IF s3[1] = ","
         THEN PPairs(d, Drop(s3, 1), Append(acc, [k |-> k.v, v |-> r.v]), TRUE)
    ELSE IF s3[1] = "}" THEN POk(VDict(Append(acc, [k |-> k.v, v |-> r.v])), Drop(s3, 1))
    ELSE PFail

PPairsVal(d, k, r, acc) == PPairsNext(d, k, r, SkipWs(r.rest), acc)

\* after the key k, at s2: ":" (Python, JSON) or "=" (TOML) and the value
PPairsSep(d, k, s2, acc) ==
    IF ~k.ok \/ Len(s2) = 0 \/ s2[1] # (IF d = "toml" THEN "=" ELSE ":") THEN PFail
    ELSE PPairsVal(d, k, PVal(d, SkipWs(Drop(s2, 1))), acc)

PPairsKey(d, k, acc) == PPairsSep(d, k, SkipWs(k.rest), acc)

PPairsAt(d, s1, acc, afterComma) ==
    IF Len(s1) = 0 THEN PFail
    ELSE IF s1[1] = "}"
         THEN IF afterComma /\ (d # "py" \/ acc = <<>>) THEN PFail
              ELSE POk(VDict(acc), Drop(s1, 1))
    ELSE PPairsKey(d, PKey(d, s1), acc)

PPairs(d, s, acc, afterComma) == PPairsAt(d, SkipWs(s), acc, afterComma)

PList(r) == IF r.ok THEN POk(VList(r.v), r.rest) ELSE PFail

\* "(x)" is x, "(x,)" and "(x, y)" are tuples
PTuple(r) ==
    IF ~r.ok THEN PFail
    ELSE IF Len(r.v) = 1 /\ ~r.comma THEN POk(r.v[1], r.rest)
    ELSE POk(VTuple(r.v), r.rest)

PSet(d, e) == IF d = "py" /\ e.ok /\ e.v # <<>> THEN POk(VSet(e.v), e.rest) ELSE PFail

\* "{...}": a dict (r), else in Python a set
PBrace(d, s, r) == IF r.ok THEN r ELSE PSet(d, PItems(d, s, "}", <<>>, FALSE))

PAtom(d, s, k) == IF k.ok THEN k ELSE PNumber(d, s)

\* one value at the start of s
PVal(d, s) ==
    IF Len(s) = 0 THEN PFail
    ELSE IF s[1] \in Quotes(d) THEN PStrBody(d, Drop(s, 1), s[1], <<>>)
    ELSE IF s[1] = "[" THEN PList(PItems(d, Drop(s, 1), "]", <<>>, FALSE))
    ELSE IF s[1] = "(" /\ d = "py" THEN PTuple(PItems(d, Drop(s, 1), ")", <<>>, FALSE))
    ELSE IF s[1] = "{" THEN PBrace(d, Drop(s, 1), PPairs(d, Drop(s, 1), <<>>, FALSE))
    ELSE PAtom(d, s, PKeyword(d, s))

\* a parse of the whole text as one value
PWholeOf(r) == IF r.ok /\ SkipWs(r.rest) = <<>> THEN r ELSE PFail

PWhole(d, s) == PWholeOf(PVal(d, SkipWs(s)))

\* ast.literal_eval(val): one literal, or a bare "a, b", which is a tuple
PyBare(t) == IF t.ok /\ t.v.t = "tuple" /\ t.v.xs # <<>> THEN t ELSE PFail

PyEither(r, s) == IF r.ok THEN r ELSE PyBare(PWhole("py", <<"(">> \o s \o <<")">>))

PyLiteralEval(s) == PyEither(PWhole("py", s), s)

\* json.loads(val)
JsonLoads(s) == PWhole("json", s)

\* the value of a TOML key/value line
TomlValue(s) == PWhole("toml", s)

(***************************************************************************)
(* json.dumps (ini_to_toml.py:56): [ok, s]; not ok is its TypeError        *)
(***************************************************************************)
RECURSIVE EscapeStr(_)
EscapeStr(s) ==
    IF Len(s) = 0 THEN <<>>
    ELSE (IF s[1] \in {"\"", "\\"} THEN <<"\\", s[1]>> ELSE <<s[1]>>)
            \o EscapeStr(Drop(s, 1))

Quoted(s) == <<"\"">> \o EscapeStr(s) \o <<"\"">>

\* float.__repr__ of a decimal without exponent
FloatRepr(f) ==
    (IF f.neg THEN <<"-">> ELSE <<>>) \o NatToStr(f.ip) \o <<".">>
        \o (IF f.frac = <<>> THEN <<"0">> ELSE f.frac)

DFail == [ok |-> FALSE, s |-> <<>>]
DOk(s) == [ok |-> TRUE, s |-> s]

\* a dict key as json.dumps writes it: str, int, float, bool and None keys
\* become strings, any other key is a TypeError
DumpKey(k) ==
    CASE k.t = "str" -> DOk(Quoted(k.s))
      [] k.t = "int" -> DOk(Quoted(IntToStr(k.n)))
      [] k.t = "float" -> DOk(Quoted(FloatRepr(k.f)))
      [] k.t = "bool" -> DOk(Quoted(IF k.b THEN <<"t", "r", "u", "e">>
                                    ELSE <<"f", "a", "l", "s", "e">>))
      [] k.t = "none" -> DOk(Quoted(<<"n", "u", "l", "l">>))
      [] OTHER -> DFail

RECURSIVE JsonDumps(_)
RECURSIVE DumpItems(_)
RECURSIVE DumpPairs(_)

\* h, then ", " and r if there is more
DumpJoin(h, r, more) ==
    IF ~h.ok \/ ~r.ok THEN DFail
    ELSE DOk(h.s \o (IF more THEN <<",", " ">> ELSE <<>>) \o r.s)

\* "key": value
DumpPair(k, h) == IF ~k.ok \/ ~h.ok THEN DFail ELSE DOk(k.s \o <<":", " ">> \o h.s)

DumpItems(xs) ==
    IF Len(xs) = 0 THEN DOk(<<>>)
    ELSE DumpJoin(JsonDumps(xs[1]), DumpItems(Drop(xs, 1)), Len(xs) > 1)

DumpPairs(kvs) ==
    IF Len(kvs) = 0 THEN DOk(<<>>)
    ELSE DumpJoin(DumpPair(DumpKey(kvs[1].k), JsonDumps(kvs[1].v)),
                  DumpPairs(Drop(kvs, 1)), Len(kvs) > 1)

Bracket(open, r, close) == IF r.ok THEN DOk(<<open>> \o r.s \o <<close>>) ELSE DFail

JsonDumps(v) ==
    CASE v.t = "none" -> DOk(<<"n", "u", "l", "l">>)
      [] v.t = "bool" -> DOk(IF v.b THEN <<"t", "r", "u", "e">>
                             ELSE <<"f", "a", "l", "s", "e">>)
      [] v.t = "int" -> DOk(IntToStr(v.n))
      [] v.t = "float" -> DOk(FloatRepr(v.f))
      [] v.t = "str" -> DOk(Quoted(v.s))
      [] v.t \in {"list", "tuple"} -> Bracket("[", DumpItems(v.xs), "]")
      [] v.t = "dict" -> Bracket("{", DumpPairs(v.kvs), "}")
      [] OTHER -> DFail

(***************************************************************************)
(* ini_to_toml.load_ini_value                                              *)
(***************************************************************************)
TrueWords == {<<"t", "r", "u", "e">>, <<"y", "e", "s">>, <<"1">>}
FalseWords == {<<"f", "a", "l", "s", "e">>, <<"n", "o">>, <<"0">>}

\* try: return <r>; except Exception: <alt>
OrElse(r, alt) == IF r.ok THEN r.v ELSE alt

\* int(val) of a str: a ValueError unless every character is one of 0-9
ToInt(val) == IF IsDecimal(val) THEN VInt(DigitsToInt(val)) ELSE VRaise("ValueError")

load_ini_value(val) ==
    IF Lower(val) \in TrueWords THEN VBool(TRUE)
    ELSE IF Lower(val) \in FalseWords THEN VBool(FALSE)
    ELSE IF IsDigit(val) THEN ToInt(val)
    ELSE OrElse(PyLiteralEval(val), OrElse(JsonLoads(val), VStr(val)))

(***************************************************************************)
(* Files. A text is a sequence of lines: a "[name]" header, a key/value    *)
(* line (sp: written "key = value" rather than "key=value"), a comment, or *)
(* a line that is none of these.                                           *)
(***************************************************************************)
Hdr(name) == [k |-> "hdr", name |-> name]
KV(key, val, sp) == [k |-> "kv", key |-> key, val |-> val, sp |-> sp]
Com == [k |-> "com"]
Junk == [k |-> "junk"]

\* str.upper() on the section and key names the inputs use
Upper(n) ==
    CASE n = "server_config" -> "SERVER_CONFIG"
      [] n = "general" -> "GENERAL"
      [] n = "timeout" -> "TIMEOUT"
      [] n = "media_timeout" -> "MEDIA_TIMEOUT"
      [] n = "Timeout" -> "TIMEOUT"
      [] OTHER -> n

ConfigSectionNames ==
    {"SHELL_CONFIG", "GENERAL_CONFIG", "STORAGE_CONFIG", "SERVER_CONFIG",
     "ARCHIVING_CONFIG", "LDAP_CONFIG", "ARCHIVE_METHOD_TOGGLES",
     "ARCHIVE_METHOD_OPTIONS", "SEARCH_BACKEND_CONFIG", "DEPENDENCY_CONFIG"}

\* An ordered dict as a sequence of [key, val] entries: d[key] = val keeps
\* the position of a key that is already there.
DictHas(d, key) == \E i \in 1..Len(d) : d[i].key = key
DictGet(d, key) == d[CHOOSE i \in 1..Len(d) : d[i].key = key].val
DictSet(d, key, val) ==
    IF DictHas(d, key)
    THEN [i \in 1..Len(d) |-> IF d[i].key = key THEN [key |-> key, val |-> val] ELSE d[i]]
    ELSE Append(d, [key |-> key, val |-> val])

RECURSIVE DictUpdate(_, _)
DictUpdate(d, e) ==
    IF Len(e) = 0 THEN d
    ELSE DictUpdate(DictSet(d, e[1].key, e[1].val), Drop(e, 1))

(***************************************************************************)
(* configparser.ConfigParser().read_string (ini_to_toml.py:40-42), with    *)
(* optionxform = str: keys keep their case. st = [secs, defaults, cur,     *)
(* err, bad]; cur is the section being read ("" before the first header);  *)
(* bad: a line that is no option was read, which is reported (as a         *)
(* ParsingError) once the whole text is read.                              *)
(***************************************************************************)
RECURSIVE IniRead(_, _)
IniRead(lines, st) ==
    IF Len(lines) = 0 \/ st.err # "" THEN st
    ELSE LET l == lines[1]
             next ==
               CASE l.k = "com" -> st
                 [] l.k = "junk" ->
                      IF st.cur = "" THEN [st EXCEPT !.err = "MissingSectionHeaderError"]
                      ELSE [st EXCEPT !.bad = TRUE]
                 [] l.k = "hdr" ->
                      IF l.name = "DEFAULT" THEN [st EXCEPT !.cur = "DEFAULT"]
                      ELSE IF DictHas(st.secs, l.name)
                      THEN [st EXCEPT !.err = "DuplicateSectionError"]
                      ELSE [st EXCEPT !.secs = DictSet(@, l.name, <<>>), !.cur = l.name]
                 [] l.k = "kv" ->
                      IF st.cur = "" THEN [st EXCEPT !.err = "MissingSectionHeaderError"]
                      ELSE IF st.cur = "DEFAULT"
                      THEN IF DictHas(st.defaults, l.key)
                           THEN [st EXCEPT !.err = "DuplicateOptionError"]
                           ELSE [st EXCEPT !.defaults = DictSet(@, l.key, l.val)]
                      ELSE IF DictHas(DictGet(st.secs, st.cur), l.key)
                      THEN [st EXCEPT !.err = "DuplicateOptionError"]
                      ELSE [st EXCEPT !.secs =
                               DictSet(@, st.cur, DictSet(DictGet(st.secs, st.cur), l.key, l.val))]
         IN  IniRead(Drop(lines, 1), next)

IniEnd(st) == IF st.err = "" /\ st.bad THEN [st EXCEPT !.err = "ParsingError"] ELSE st

IniParse(text) ==
    IniEnd(IniRead(text, [secs |-> <<>>, defaults |-> <<>>, cur |-> "",
                          err |-> "", bad |-> FALSE]))

\* BasicInterpolation on one value: "%%" is a percent sign; any other "%"
\* is an error (the inputs name no option as %(name)s)
RECURSIVE Interpolate(_)
InterpolateCons(c, r) == [ok |-> r.ok, s |-> <<c>> \o r.s]

Interpolate(s) ==
    IF Len(s) = 0 THEN [ok |-> TRUE, s |-> <<>>]
    ELSE IF s[1] # "%" THEN InterpolateCons(s[1], Interpolate(Drop(s, 1)))
    ELSE IF Len(s) >= 2 /\ s[2] = "%" THEN InterpolateCons("%", Interpolate(Drop(s, 2)))
    ELSE [ok |-> FALSE, s |-> <<>>]

\* config.items(section): the DEFAULT options, then the section's own
IniItems(ini, section) == DictUpdate(ini.defaults, DictGet(ini.secs, section))

(***************************************************************************)
(* ini_to_toml.convert: [err, text]. toml_dict is filled section by        *)
(* section under the section's own name and indexed under its upper-cased  *)
(* name.                                                                   *)
(***************************************************************************)
\* the inner loop (lines 52-56) over the items of one section; dumped is
\* json.dumps(parsed_value) of the first item
RECURSIVE ConvertItems(_, _, _)
ConvertItem(td, section, items, dumped) ==
    IF ~dumped.ok THEN [err |-> "TypeError", td |-> td]
    ELSE IF ~DictHas(td, Upper(section)) THEN [err |-> "KeyError", td |-> td]
    ELSE ConvertItems(
           DictSet(td, Upper(section),
                   DictSet(DictGet(td, Upper(section)), Upper(items[1].key), dumped.s)),
           section, Drop(items, 1))

\* line 53: parsed_value is the outcome of load_ini_value for the first item
ConvertValue(td, section, items, parsed_value) ==
    IF parsed_value.t = "raise" THEN [err |-> parsed_value.err, td |-> td]
    ELSE ConvertItem(td, section, items, JsonDumps(parsed_value))

ConvertItems(td, section, items) ==
    IF Len(items) = 0 THEN [err |-> "", td |-> td]
    ELSE ConvertValue(td, section, items,
                      load_ini_value(Interpolate(items[1].val).s))

\* the outer loop (lines 48-56) over config.sections(); r is the outcome
\* of the inner loop for section i
RECURSIVE ConvertSections(_, _, _)
ConvertSection(ini, i, r) ==
    IF r.err # "" THEN r ELSE ConvertSections(ini, r.td, i + 1)

ConvertSectionItems(ini, td, i, section, items) ==
    IF \E j \in 1..Len(items) : ~Interpolate(items[j].val).ok
    THEN [err |-> "InterpolationSyntaxError", td |-> td]
    ELSE ConvertSection(ini, i, ConvertItems(DictSet(td, section, <<>>), section, items))

ConvertSections(ini, td, i) ==
    IF i > Len(ini.secs) THEN [err |-> "", td |-> td]
    ELSE ConvertSectionItems(ini, td, i, ini.secs[i].key, IniItems(ini, ini.secs[i].key))

\* the lines of one table of the output (lines 60-64)
TomlTable(e) ==
    <<Hdr(e.key)>> \o [j \in 1..Len(e.val) |-> KV(e.val[j].key, e.val[j].val, TRUE)]

RECURSIVE TomlTables(_)
TomlTables(td) ==
    IF Len(td) = 0 THEN <<>> ELSE TomlTable(td[1]) \o TomlTables(Drop(td, 1))

ConvertOut(r) ==
    IF r.err # "" THEN [err |-> r.err, text |-> <<>>]
    ELSE [err |-> "", text |-> <<Com>> \o TomlTables(r.td)]

ConvertParsed(ini) ==
    IF ini.err # "" THEN [err |-> ini.err, text |-> <<>>]
    ELSE ConvertOut(ConvertSections(ini, <<>>, 1))

convert(ini_str) == ConvertParsed(IniParse(ini_str))

(***************************************************************************)
(* tomllib on a whole document (the reader behind _read_files,             *)
(* base_configset.py:73): [ok, doc]; doc is the ordered dict of top-level  *)
(* keys and tables. A second header of the same name, a second key of the  *)
(* same name in one table, a value that is no TOML value and a line that   *)
(* is no TOML are TOMLDecodeErrors.                                        *)
(***************************************************************************)
VTable(items) == [t |-> "table", items |-> items]

RECURSIVE TomlRead(_, _)
\* the document after the line l, whose value (if it is a key/value line)
\* parses as v
TomlLine(st, l, v) ==
    CASE l.k = "com" -> st
      [] l.k = "junk" -> [st EXCEPT !.ok = FALSE]
      [] l.k = "hdr" ->
           IF DictHas(st.doc, l.name) THEN [st EXCEPT !.ok = FALSE]
           ELSE [st EXCEPT !.doc = DictSet(@, l.name, VTable(<<>>)), !.cur = l.name]
      [] l.k = "kv" ->
           IF ~v.ok THEN [st EXCEPT !.ok = FALSE]
           ELSE IF st.cur = ""
           THEN IF DictHas(st.doc, l.key) THEN [st EXCEPT !.ok = FALSE]
                ELSE [st EXCEPT !.doc = DictSet(@, l.key, v.v)]
           ELSE IF DictHas(DictGet(st.doc, st.cur).items, l.key)
           THEN [st EXCEPT !.ok = FALSE]
           ELSE [st EXCEPT !.doc =
                   DictSet(@, st.cur,
                           VTable(DictSet(DictGet(st.doc, st.cur).items, l.key, v.v)))]

TomlRead(lines, st) ==
    IF Len(lines) = 0 \/ ~st.ok THEN st
    ELSE TomlRead(Drop(lines, 1),
                  TomlLine(st, lines[1],
                           IF lines[1].k = "kv" THEN TomlValue(lines[1].val) ELSE PFail))

TomlParse(text) == TomlRead(text, [ok |-> TRUE, doc |-> <<>>, cur |-> ""])

(***************************************************************************)
(* Config schemas. A schema is the sequence of a config set's fields in    *)
(* declaration order, each an int field with a default: a constant, a      *)
(* function without arguments (returning an int, "fn0", or a str that is   *)
(* no int, "fnbad"), or a function of the config (lambda c: c.<of>,        *)
(* "copy").                                                                *)
(***************************************************************************)
FieldNames == {"TIMEOUT", "MEDIA_TIMEOUT"}

Const(n) == [kind |-> "const", n |-> n, of |-> ""]
Fn0(n) == [kind |-> "fn0", n |-> n, of |-> ""]
FnBad == [kind |-> "fnbad", n |-> 0, of |-> ""]
Copy(f) == [kind |-> "copy", n |-> 0, of |-> f]

Field(name, default) == [name |-> name, default |-> default]

Defaults == {Const(60), Fn0(5), FnBad, Copy("TIMEOUT"), Copy("MEDIA_TIMEOUT")}

Schemas ==
    {<<Field(a, da), Field(b, db)>> :
        <<a, b, da, db>> \in
            {q \in FieldNames \X FieldNames \X Defaults \X Defaults :
                /\ q[1] # q[2]
                /\ q[3].of # q[1] /\ q[4].of # q[2]
                /\ q[3].kind # "fnbad" \/ q[4].kind = "const"
                /\ q[4].kind # "fnbad" \/ q[3].kind = "const"}}

Fields(sch) == {sch[i].name : i \in 1..Len(sch)}
DeclIndex(sch, f) == CHOOSE i \in 1..Len(sch) : sch[i].name = f
DefaultOf(sch, f) == sch[DeclIndex(sch, f)].default

(***************************************************************************)
(* Values of a config object's fields: a validated int, or the default     *)
(* function itself while fill_defaults has not called it.                  *)
(***************************************************************************)
NoVal == [t |-> "unset"]
RawFn(f) == [t |-> "fn", of |-> f]

\* pydantic's lax validation of a value as an int
ValidateInt(v) ==
    CASE v.t = "int" -> [ok |-> TRUE, n |-> v.n]
      [] v.t = "bool" -> [ok |-> TRUE, n |-> IF v.b THEN 1 ELSE 0]
      [] v.t = "float" -> [ok |-> v.f.frac = <<>>,
                           n |-> IF v.f.neg THEN 0 - v.f.ip ELSE v.f.ip]
      [] v.t = "str" ->
           LET signed == Len(v.s) > 0 /\ v.s[1] \in {"-", "+"}
               body   == IF signed THEN Drop(v.s, 1) ELSE v.s
               n      == IF IsDecimal(body) THEN DigitsToInt(body) ELSE 0
           IN  [ok |-> IsDecimal(body), n |-> IF signed /\ v.s[1] = "-" THEN 0 - n ELSE n]
      [] OTHER -> [ok |-> FALSE, n |-> 0]

(***************************************************************************)
(* FlatTomlConfigSettingsSource.__init__: the tables named after config    *)
(* sections are flattened into one namespace, every other top-level entry  *)
(* is kept as it is, and only the keys that are fields are kept.           *)
(***************************************************************************)
\* a faulty variant of Flatten: a key that is already in toml_data keeps its
\* value
RECURSIVE FlattenFirstWins(_, _)
FlattenFirstWins(doc, toml_data) ==
    IF Len(doc) = 0 THEN toml_data
    ELSE FlattenFirstWins(Drop(doc, 1),
                          IF doc[1].key \in ConfigSectionNames /\ doc[1].val.t = "table"
                          THEN DictUpdate(doc[1].val.items, toml_data)
                          ELSE IF DictHas(toml_data, doc[1].key) THEN toml_data
                          ELSE DictSet(toml_data, doc[1].key, doc[1].val))

RECURSIVE Flatten(_, _)
Flatten(doc, toml_data) ==
    IF Len(doc) = 0 THEN toml_data
    ELSE LET e == doc[1]
         IN  Flatten(Drop(doc, 1),
                     IF e.key \in ConfigSectionNames /\ e.val.t = "table"
                     THEN DictUpdate(toml_data, e.val.items)
                     ELSE DictSet(toml_data, e.key, e.val))

\* the entries of toml_data that are fields (lines 85-89)
FlatFields(toml_data, sch) ==
    [f \in FieldNames |->
        IF f \in Fields(sch) /\ DictHas(toml_data, f) THEN DictGet(toml_data, f)
        ELSE NoVal]

FlatToml(text, sch) == FlatFields(Flatten(TomlParse(text).doc, <<>>), sch)

NoData == [f \in FieldNames |-> NoVal]

(***************************************************************************)
(* pydantic-settings: the sources settings_customise_sources returns are   *)
(* read in order and the first one that has a value for a field supplies   *)
(* it (BaseSettings._settings_build_values).                               *)
(***************************************************************************)
SourceOrder == <<"defaults", "configfile", "environment">>

\* tuple(precedence_order.values()) (line 187)
Sources(keys) == SelectSeq(SourceOrder, LAMBDA k : k \in keys)

\* what one source has for field f: init_settings holds the keyword
\* arguments of __init__ (none), the file source its filtered toml_data,
\* env_settings the environment variable named after the field
SourceValue(src, data, env, f) ==
    CASE src = "configfile" -> data[f]
      [] src = "environment" -> IF env[f].set THEN VStr(env[f].s) ELSE NoVal
      [] OTHER -> NoVal

RECURSIVE FirstDefined(_, _, _, _)
FirstDefined(srcs, data, env, f) ==
    IF Len(srcs) = 0 THEN NoVal
    ELSE IF SourceValue(srcs[1], data, env, f).t # "unset"
         THEN SourceValue(srcs[1], data, env, f)
    ELSE FirstDefined(Drop(srcs, 1), data, env, f)

\* a faulty variant of Layered: a field without a layered value gets the
\* zero of its type instead of its declared constant
LayeredZero(lv, d, f) ==
    IF lv.t # "unset"
    THEN IF ValidateInt(lv).ok THEN VInt(ValidateInt(lv).n) ELSE [t |-> "invalid"]
    ELSE IF d.kind = "const" THEN VInt(0) ELSE RawFn(f)

\* the value of a field before fill_defaults: the validated layered value,
\* or the declared default (validate_default = False: taken as it is)
Layered(lv, d, f) ==
    IF lv.t # "unset"
    THEN IF ValidateInt(lv).ok THEN VInt(ValidateInt(lv).n) ELSE [t |-> "invalid"]
    ELSE IF d.kind = "const" THEN VInt(d.n) ELSE RawFn(f)

FieldValue(sch, srcs, data, env, f) ==
    Layered(FirstDefined(srcs, data, env, f), DefaultOf(sch, f), f)

(***************************************************************************)
(* ArchiveBoxBaseConfig.fill_defaults: st = [vals, obs, evals, err].       *)
(* obs records what each default function of the config read: [reader,     *)
(* read, seen]; evals counts the calls of each field's default function.   *)
(***************************************************************************)
\* a faulty variant of ComputedDefault: the function is handed the declared
\* defaults of the fields instead of config_so_far
ComputedDefaultDeclared(d, vals) ==
    CASE d.kind = "copy" -> RawFn(d.of)
      [] d.kind = "fn0" -> VInt(d.n)
      [] d.kind = "fnbad" -> VStr(<<"a", "b", "c">>)

\* field.default(config_so_far) or field.default() (lines 198-204)
ComputedDefault(d, vals) ==
    CASE d.kind = "copy" -> vals[d.of]
      [] d.kind = "fn0" -> VInt(d.n)
      [] d.kind = "fnbad" -> VStr(<<"a", "b", "c">>)

\* a faulty variant of FillFrom: the computed default is set on the object
\* without the check against the field's type
RECURSIVE FillFromUnchecked(_, _, _)
FillFromUnchecked(sch, i, st) ==
    IF i > Len(sch) THEN st
    ELSE IF st.vals[sch[i].name].t # "fn" THEN FillFromUnchecked(sch, i + 1, st)
    ELSE FillFromUnchecked(sch, i + 1,
                           [st EXCEPT !.evals[sch[i].name] = @ + 1,
                                      !.vals[sch[i].name] =
                                          ComputedDefault(sch[i].default, st.vals)])

\* a faulty variant of FillFrom: the computed default is checked but not
\* set on the object (no setattr)
RECURSIVE FillFromUnset(_, _, _)
FillFromUnset(sch, i, st) ==
    IF i > Len(sch) \/ st.err # "" THEN st
    ELSE IF st.vals[sch[i].name].t # "fn" THEN FillFromUnset(sch, i + 1, st)
    ELSE IF ~ValidateInt(ComputedDefault(sch[i].default, st.vals)).ok
         THEN [st EXCEPT !.evals[sch[i].name] = @ + 1, !.err = "ValidationError"]
    ELSE FillFromUnset(sch, i + 1, [st EXCEPT !.evals[sch[i].name] = @ + 1])

\* the loop over model_fields from the field at index i on
RECURSIVE FillFrom(_, _, _)
FillFrom(sch, i, st) ==
    IF i > Len(sch) \/ st.err # "" THEN st
    ELSE LET key      == sch[i].name
             d        == sch[i].default
             computed == ComputedDefault(d, st.vals)
             checked  == ValidateInt(computed)
             st1 == [st EXCEPT
                       !.evals[key] = @ + 1,
                       !.obs = IF d.kind = "copy"
                               THEN @ \cup {[reader |-> key, read |-> d.of, seen |-> computed]}
                               ELSE @]
         IN  IF st.vals[key].t # "fn" THEN FillFrom(sch, i + 1, st)
             ELSE IF ~checked.ok THEN [st1 EXCEPT !.err = "ValidationError"]
             ELSE FillFrom(sch, i + 1, [st1 EXCEPT !.vals[key] = VInt(checked.n)])

\* a faulty variant of fill_defaults: the validator returns at once
fill_defaults_skipped(sch, vals) ==
    [vals |-> vals, obs |-> {}, evals |-> [f \in FieldNames |-> 0], err |-> ""]

fill_defaults(sch, vals) ==
    FillFrom(sch, 1, [vals |-> vals, obs |-> {}, evals |-> [f \in FieldNames |-> 0],
                      err |-> ""])

(***************************************************************************)
(* The state                                                               *)
(***************************************************************************)
VARIABLES
    schema,     \* the config set class: its fields in declaration order
    flags,      \* its load_from_defaults / _configfile / _environment
    file,       \* DATA_DIR/ArchiveBox.conf: [exists, text]
    bak,        \* DATA_DIR/.ArchiveBox.conf.bak: [exists, text]
    orig,       \* the config file as it was before the first load
    environ,    \* os.environ of each process: key -> [set, s]
    cfg,        \* the config object of each process: field -> value
    built,      \* whether the process has a config object
    pc,         \* where each process is in a load
    op,         \* the operation the load belongs to: [name, kwargs]
    buf,        \* original_ini (line 169)
    out,        \* new_toml (line 171)
    prec,       \* precedence_order: [keys, data]
    last,       \* the outcome of the last operation: [name, kwargs, err, seq]
    obs,        \* what the default functions read in the last fill_defaults
    evals,      \* the calls of each default function in the last fill_defaults
    nops,       \* operations started so far
    browsers,   \* the files in each provider's browsers directory
    dirs,       \* whether each provider's browsers directory exists
    thr,        \* the threads resolving chrome: [pc, prov, run, execs]
    abspaths,   \* _browser_abspaths of each provider class: name -> [set, path]
    calls,      \* the provider calls so far, each with what it did
    host,       \* the host: [sys, installer, syschrome]
    present,    \* the [bin, provider] pairs of which the provider has the binary
    loaded,     \* what each binary descriptor has recorded: [tried, set, ...]
    legacy,     \* ini_str, the argument of a call of ini_to_toml.convert
    structured, \* what the call did: [err, text]
    converted   \* whether the call has been made

cfgVars == <<schema, flags, file, bak, orig, environ, cfg, built, pc, op, buf,
             out, prec, last, obs, evals, nops>>
binVars == <<browsers, dirs, thr, abspaths, calls, host>>
resVars == <<present, loaded>>
iniVars == <<legacy, structured, converted>>
vars == <<cfgVars, binVars, resVars, iniVars>>

Procs == {1, 2}

MaxOps == 3

Absent == [exists |-> FALSE, text |-> <<>>]
File(text) == [exists |-> TRUE, text |-> text]

EnvKeys == FieldNames \cup {"BOGUS"}
Unset == [set |-> FALSE, s |-> <<>>]
EnvStr(s) == [set |-> TRUE, s |-> s]

(***************************************************************************)
(* Inputs: the config files, environments and update_in_place arguments    *)
(* the operations are run on                                               *)
(***************************************************************************)
\* structured (TOML) files
TomlTimeout30 == <<Hdr("SERVER_CONFIG"), KV("TIMEOUT", <<"3", "0">>, TRUE)>>
TomlFlat == <<KV("MEDIA_TIMEOUT", <<"4", "0">>, TRUE), Hdr("GENERAL"),
              KV("TIMEOUT", <<"7">>, TRUE)>>
TomlBadType == <<Hdr("SERVER_CONFIG"), KV("TIMEOUT", <<"\"", "a", "b", "c", "\"">>, TRUE)>>
\* legacy (INI) files: no TOML because of an unquoted word
IniTimeout30 == <<Hdr("SERVER_CONFIG"), KV("TIMEOUT", <<"3", "0">>, FALSE),
                  KV("EXTRA", <<"a", "b", "c">>, FALSE)>>
IniNone == <<Hdr("SERVER_CONFIG"), KV("TIMEOUT", <<"N", "o", "n", "e">>, FALSE)>>
IniLowerSection == <<Hdr("server_config"), KV("timeout", <<"3", "0">>, FALSE),
                     KV("EXTRA", <<"T", "r", "u", "e">>, FALSE)>>
\* neither
Garbage == <<Hdr("SERVER_CONFIG"), Junk>>

InitialFiles ==
    {Absent} \cup {File(t) : t \in {TomlTimeout30, TomlFlat, TomlBadType, IniTimeout30,
                                   IniNone, IniLowerSection, Garbage}}

InitialEnvs ==
    {[k \in EnvKeys |-> Unset],
     [k \in EnvKeys |-> IF k = "TIMEOUT" THEN EnvStr(<<"1", "0">>) ELSE Unset],
     [k \in EnvKeys |-> IF k = "MEDIA_TIMEOUT" THEN EnvStr(<<"a", "b", "c">>) ELSE Unset]}

Arg(key, v) == [key |-> key, v |-> v]

KwargSets ==
    {<<Arg(k, 10)>> : k \in {"TIMEOUT", "BOGUS"}}
      \cup {<<Arg("TIMEOUT", 20), Arg("MEDIA_TIMEOUT", 10)>>,
            <<Arg("BOGUS", 10), Arg("TIMEOUT", 20)>>,
            <<Arg("MEDIA_TIMEOUT", 20), Arg("BOGUS", 10)>>}

(***************************************************************************)
(* Operations on a config set                                              *)
(***************************************************************************)
\* an operation of process p ends: with err = "" it returned, else raised
Done(p, err) ==
    /\ pc' = [pc EXCEPT ![p] = "idle"]
    /\ last' = [last EXCEPT ![p] = [name |-> op[p].name, kwargs |-> op[p].kwargs,
                                    err |-> err, seq |-> nops]]

\* BaseSettings.__init__ begins: the sources are built next
Begin(p, name, kwargs) ==
    /\ pc[p] = "idle"
    /\ nops < MaxOps
    /\ nops' = nops + 1
    /\ pc' = [pc EXCEPT ![p] = "sources"]
    /\ op' = [op EXCEPT ![p] = [name |-> name, kwargs |-> kwargs]]

\* ConfigSet(): the first construction of the process's config object
Construct(p) ==
    /\ ~built[p]
    /\ Begin(p, "construct", <<>>)
    /\ UNCHANGED <<schema, flags, file, bak, orig, environ, cfg, built, buf, out,
                   prec, last, obs, evals, binVars, resVars, iniVars>>

\* self.__init__(): a reload of an existing config object
Rebuild(p) ==
    /\ built[p]
    /\ Begin(p, "rebuild", <<>>)
    /\ UNCHANGED <<schema, flags, file, bak, orig, environ, cfg, built, buf, out,
                   prec, last, obs, evals, binVars, resVars, iniVars>>

\* os.environ after the loop of update_in_place (lines 223-227) has run over
\* the first n keyword arguments
RECURSIVE EnvAfter(_, _, _)
EnvAfter(env, kwargs, n) ==
    IF n = 0 THEN env
    ELSE [EnvAfter(env, kwargs, n - 1) EXCEPT ![kwargs[n].key] = EnvStr(IntToStr(kwargs[n].v))]

\* update_in_place(**kwargs): each key is written to os.environ and then
\* read from the config object (an AttributeError for a key that is no
\* field); then self.__init__()
update_in_place(p, kwargs) ==
    LET bad == {i \in 1..Len(kwargs) : kwargs[i].key \notin Fields(schema)}
        stop == CHOOSE i \in bad : \A j \in bad : i <= j
    IN  /\ built[p]
        /\ pc[p] = "idle"
        /\ nops < MaxOps
        /\ nops' = nops + 1
        /\ op' = [op EXCEPT ![p] = [name |-> "update_in_place", kwargs |-> kwargs]]
        /\ IF bad = {}
           THEN /\ environ' = [environ EXCEPT ![p] = EnvAfter(@, kwargs, Len(kwargs))]
                /\ pc' = [pc EXCEPT ![p] = "sources"]
                /\ UNCHANGED last
           ELSE /\ environ' = [environ EXCEPT ![p] = EnvAfter(@, kwargs, stop)]
                /\ pc' = pc
                /\ last' = [last EXCEPT ![p] = [name |-> "update_in_place", kwargs |-> kwargs,
                                                err |-> "AttributeError", seq |-> nops + 1]]
        /\ UNCHANGED <<schema, flags, file, bak, orig, cfg, built, buf, out, prec,
                       obs, evals, binVars, resVars, iniVars>>

(***************************************************************************)
(* settings_customise_sources, step by step. The migration of a legacy     *)
(* file (lines 169-172) is four statements; Path.write_text opens the file *)
(* for writing, which empties it, and then writes.                         *)
(***************************************************************************)
AllKeys == {"defaults", "configfile", "environment"}

\* a faulty variant of LoadSources: every file that exists is migrated
LoadSourcesMigrating(p) ==
    /\ pc[p] = "sources"
    /\ IF ~file.exists
       THEN /\ prec' = [prec EXCEPT ![p] = [keys |-> {"defaults", "environment"},
                                            data |-> NoData]]
            /\ pc' = [pc EXCEPT ![p] = "pop"]
       ELSE /\ pc' = [pc EXCEPT ![p] = "mig_read"]
            /\ UNCHANGED prec
    /\ UNCHANGED <<schema, flags, file, bak, orig, environ, cfg, built, op, buf, out,
                   last, obs, evals, nops, binVars, resVars, iniVars>>

\* lines 147-165: no file, a file that parses as TOML, or a TOMLDecodeError
LoadSources(p) ==
    /\ pc[p] = "sources"
    /\ IF ~file.exists
       THEN /\ prec' = [prec EXCEPT ![p] = [keys |-> {"defaults", "environment"},
                                            data |-> NoData]]
            /\ pc' = [pc EXCEPT ![p] = "pop"]
       ELSE IF TomlParse(file.text).ok
       THEN /\ prec' = [prec EXCEPT ![p] = [keys |-> AllKeys,
                                            data |-> FlatToml(file.text, schema)]]
            /\ pc' = [pc EXCEPT ![p] = "pop"]
       ELSE /\ pc' = [pc EXCEPT ![p] = "mig_read"]
            /\ UNCHANGED prec
    /\ UNCHANGED <<schema, flags, file, bak, orig, environ, cfg, built, op, buf, out,
                   last, obs, evals, nops, binVars, resVars, iniVars>>

\* line 169: original_ini = ARCHIVEBOX_CONFIG_FILE.read_text()
MigRead(p) ==
    /\ pc[p] = "mig_read"
    /\ buf' = [buf EXCEPT ![p] = file.text]
    /\ pc' = [pc EXCEPT ![p] = "bak_open"]
    /\ UNCHANGED <<schema, flags, file, bak, orig, environ, cfg, built, op, out, prec,
                   last, obs, evals, nops, binVars, resVars, iniVars>>

\* line 170: ARCHIVEBOX_CONFIG_FILE_BAK.write_text(original_ini), the open
BakOpen(p) ==
    /\ pc[p] = "bak_open"
    /\ bak' = File(<<>>)
    /\ pc' = [pc EXCEPT ![p] = "bak_write"]
    /\ UNCHANGED <<schema, flags, file, orig, environ, cfg, built, op, buf, out, prec,
                   last, obs, evals, nops, binVars, resVars, iniVars>>

\* a faulty variant of BakWrite: the backup receives the config file as it
\* is when the backup is written
BakWriteCurrent(p) ==
    /\ pc[p] = "bak_write"
    /\ bak' = File(file.text)
    /\ pc' = [pc EXCEPT ![p] = "convert"]
    /\ UNCHANGED <<schema, flags, file, orig, environ, cfg, built, op, buf, out, prec,
                   last, obs, evals, nops, binVars, resVars, iniVars>>

\* line 170, the write
BakWrite(p) ==
    /\ pc[p] = "bak_write"
    /\ bak' = File(buf[p])
    /\ pc' = [pc EXCEPT ![p] = "convert"]
    /\ UNCHANGED <<schema, flags, file, orig, environ, cfg, built, op, buf, out, prec,
                   last, obs, evals, nops, binVars, resVars, iniVars>>

\* line 171: new_toml = ini_to_toml.convert(original_ini), which may raise;
\* r is what convert does on original_ini
Converted(p, r) ==
    IF r.err # ""
    THEN Done(p, r.err) /\ UNCHANGED out
    ELSE /\ out' = [out EXCEPT ![p] = r.text]
         /\ pc' = [pc EXCEPT ![p] = "cfg_open"]
         /\ UNCHANGED last

MigConvert(p) ==
    /\ pc[p] = "convert"
    /\ Converted(p, convert(buf[p]))
    /\ UNCHANGED <<schema, flags, file, bak, orig, environ, cfg, built, op, buf, prec,
                   obs, evals, nops, binVars, resVars, iniVars>>

\* a faulty variant of CfgOpen: the config file may be opened for writing
\* before the backup is written
CfgOpenFirst(p) ==
    /\ pc[p] \in {"bak_open", "cfg_open"}
    /\ file' = File(<<>>)
    /\ pc' = [pc EXCEPT ![p] = IF pc[p] = "bak_open" THEN "bak_open" ELSE "cfg_write"]
    /\ UNCHANGED <<schema, flags, bak, orig, environ, cfg, built, op, buf, out, prec,
                   last, obs, evals, nops, binVars, resVars, iniVars>>

\* line 172: ARCHIVEBOX_CONFIG_FILE.write_text(new_toml), the open
CfgOpen(p) ==
    /\ pc[p] = "cfg_open"
    /\ file' = File(<<>>)
    /\ pc' = [pc EXCEPT ![p] = "cfg_write"]
    /\ UNCHANGED <<schema, flags, bak, orig, environ, cfg, built, op, buf, out, prec,
                   last, obs, evals, nops, binVars, resVars, iniVars>>

\* line 172, the write
CfgWrite(p) ==
    /\ pc[p] = "cfg_write"
    /\ file' = File(out[p])
    /\ pc' = [pc EXCEPT ![p] = "reparse"]
    /\ UNCHANGED <<schema, flags, bak, orig, environ, cfg, built, op, buf, out, prec,
                   last, obs, evals, nops, binVars, resVars, iniVars>>

\* lines 174-178: the converted file is read as TOML; a TOMLDecodeError
\* raised here is not caught
Reparse(p) ==
    /\ pc[p] = "reparse"
    /\ IF file.exists /\ TomlParse(file.text).ok
       THEN /\ prec' = [prec EXCEPT ![p] = [keys |-> AllKeys,
                                            data |-> FlatToml(file.text, schema)]]
            /\ pc' = [pc EXCEPT ![p] = "pop"]
            /\ UNCHANGED last
       ELSE Done(p, "TOMLDecodeError") /\ UNCHANGED prec
    /\ UNCHANGED <<schema, flags, file, bak, orig, environ, cfg, built, op, buf, out,
                   obs, evals, nops, binVars, resVars, iniVars>>

\* lines 180-185: the keys left in precedence_order, or the KeyError of
\* popping a key that is not there
Popped(keys) ==
    LET drop == (IF flags.environment THEN {} ELSE {"environment"})
                  \cup (IF flags.configfile THEN {} ELSE {"configfile"})
                  \cup (IF flags.defaults THEN {} ELSE {"defaults"})
    IN  [err |-> IF drop \subseteq keys THEN "" ELSE "KeyError", keys |-> keys \ drop]

\* the load fails before fill_defaults runs: no default function is called
\* and the config object, if there is one, keeps its values
NotFilled(p) ==
    /\ obs' = [obs EXCEPT ![p] = {}]
    /\ evals' = [evals EXCEPT ![p] = [f \in FieldNames |-> 0]]
    /\ UNCHANGED <<cfg, built>>

\* lines 180-187, then pydantic's validation of the layered values and
\* the model validator fill_defaults. The object's fields are set before
\* fill_defaults runs, so a failure in it leaves them half filled.
Finish(p) ==
    LET popped == Popped(prec[p].keys)
        vals   == [f \in FieldNames |->
                      FieldValue(schema, Sources(popped.keys), prec[p].data, environ[p], f)]
        filled == fill_defaults(schema, vals)
    IN  /\ pc[p] = "pop"
        /\ IF popped.err # ""
           THEN Done(p, popped.err) /\ NotFilled(p)
           ELSE IF \E f \in FieldNames : vals[f].t = "invalid"
           THEN Done(p, "ValidationError") /\ NotFilled(p)
           ELSE /\ Done(p, filled.err)
                /\ obs' = [obs EXCEPT ![p] = filled.obs]
                /\ evals' = [evals EXCEPT ![p] = filled.evals]
                /\ IF filled.err = "" \/ built[p]
                   THEN cfg' = [cfg EXCEPT ![p] = filled.vals]
                   ELSE UNCHANGED cfg
                /\ built' = [built EXCEPT ![p] = built[p] \/ filled.err = ""]
        /\ UNCHANGED <<schema, flags, file, bak, orig, environ, op, buf, out, prec,
                       nops, binVars, resVars, iniVars>>

(***************************************************************************)
(* Paths and their order. A path is the sequence of its parts; str(path)   *)
(* joins them with "/", Path(str) splits at "/". sorted() compares paths   *)
(* part by part and parts character by character.                          *)
(***************************************************************************)
\* the characters of paths and of the installers' output, in code order
Ascii ==
    <<" ", "-", "/", "0", "1", "2", "3", "4", "5", "6", "7", "8", "9", "@",
      "a", "b", "c", "d", "e", "f", "g", "h", "i", "l", "m", "n", "o", "p",
      "r", "s", "t", "u", "x">>

CharCode(c) == CHOOSE i \in 1..Len(Ascii) : Ascii[i] = c

RECURSIVE StrLess(_, _)
StrLess(a, b) ==
    IF Len(a) = 0 THEN Len(b) > 0
    ELSE IF Len(b) = 0 THEN FALSE
    ELSE IF a[1] = b[1] THEN StrLess(Drop(a, 1), Drop(b, 1))
    ELSE CharCode(a[1]) < CharCode(b[1])

RECURSIVE PathLess(_, _)
PathLess(a, b) ==
    IF Len(a) = 0 THEN Len(b) > 0
    ELSE IF Len(b) = 0 THEN FALSE
    ELSE IF a[1] = b[1] THEN PathLess(Drop(a, 1), Drop(b, 1))
    ELSE StrLess(a[1], b[1])

\* sorted(paths)
RECURSIVE Sorted(_)
SortedFrom(S, least) == <<least>> \o Sorted(S \ {least})

Sorted(S) ==
    IF S = {} THEN <<>>
    ELSE SortedFrom(S, CHOOSE a \in S : \A b \in S \ {a} : PathLess(a, b))

\* str(path)
RECURSIVE PathStr(_)
PathStr(path) ==
    IF Len(path) = 0 THEN <<>>
    ELSE IF Len(path) = 1 THEN path[1]
    ELSE path[1] \o <<"/">> \o PathStr(Drop(path, 1))

\* Path(s): the parts of s between its "/"
RECURSIVE SplitPath(_, _)
SplitPath(s, part) ==
    IF Len(s) = 0 THEN (IF part = <<>> THEN <<>> ELSE <<part>>)
    ELSE IF s[1] = "/"
         THEN (IF part = <<>> THEN <<>> ELSE <<part>>) \o SplitPath(Drop(s, 1), <<>>)
    ELSE SplitPath(Drop(s, 1), Append(part, s[1]))

ToPath(s) == SplitPath(s, <<>>)

\* w in s
Contains(s, w) ==
    \E i \in 0..(Len(s) - Len(w)) : SubSeq(s, i + 1, i + Len(w)) = w

EndsWith(s, w) == Len(s) >= Len(w) /\ SubSeq(s, Len(s) - Len(w) + 1, Len(s)) = w

(***************************************************************************)
(* The browser providers                                                   *)
(***************************************************************************)
Provs == {"puppeteer", "playwright"}

Chrome == <<"c", "h", "r", "o", "m", "e">>
Firefox == <<"f", "i", "r", "e", "f", "o", "x">>
BinNames == {Chrome, Firefox}

Versions == {<<"9">>, <<"1", "0">>}

\* chrome/linux-<version>/chrome-linux64/chrome (puppeteer/apps.py:88)
PuppeteerChrome(ver) ==
    <<Chrome, <<"l", "i", "n", "u", "x", "-">> \o ver,
      Chrome \o <<"-", "l", "i", "n", "u", "x", "6", "4">>, Chrome>>

\* chromium-<version>/chrome-linux/chrome (playwright/apps.py:107)
PlaywrightChrome(ver) ==
    <<<<"c", "h", "r", "o", "m", "i", "u", "m", "-">> \o ver,
      Chrome \o <<"-", "l", "i", "n", "u", "x">>, Chrome>>

\* files of other packages in the same directories
PuppeteerFirefox == <<Firefox, <<"l", "i", "n", "u", "x", "-", "9">>, Firefox, Firefox>>
PlaywrightFfmpeg ==
    <<<<"f", "f", "m", "p", "e", "g", "-", "9">>,
      <<"f", "f", "m", "p", "e", "g", "-", "l", "i", "n", "u", "x">>,
      <<"f", "f", "m", "p", "e", "g">>>>

ChromePath(prov, ver) ==
    IF prov = "puppeteer" THEN PuppeteerChrome(ver) ELSE PlaywrightChrome(ver)

\* /usr/bin/google-chrome-stable
SysChrome ==
    <<<<"u", "s", "r">>, <<"b", "i", "n">>,
      <<"g", "o", "o", "g", "l", "e", "-">> \o Chrome \o <<"-", "s", "t", "a", "b", "l", "e">>>>

\* installed_browser_bins(): the sorted files that match the provider's
\* pattern, "*/linux*/chrome*/chrome" or "*-*/*-linux/*"
installed_browser_bins(prov, files) ==
    Sorted({f \in files :
              IF prov = "puppeteer"
              THEN /\ Len(f) = 4
                   /\ StartsWith(f[2], <<"l", "i", "n", "u", "x">>)
                   /\ StartsWith(f[3], Chrome)
                   /\ f[4] = Chrome
              ELSE /\ Len(f) = 3
                   /\ Contains(f[1], <<"-">>)
                   /\ EndsWith(f[2], <<"-", "l", "i", "n", "u", "x">>)})

NoPath == [set |-> FALSE, path |-> <<>>]
SomePath(path) == [set |-> TRUE, path |-> path]

MaxCalls == 3

\* one call of a provider: what it was, what it returned or raised, the
\* cache entry of the name before it, how often it read the filesystem
\* (scans) and ran a subprocess (execs), the files it found in the
\* provider's directory (disk), the subprocess's return code (rc, -1 without
\* one), whether it printed the subprocess's output, and the last line of
\* that output when the call read it (out)
Call(o, prov, name, ret, err, before, scans, execs) ==
    [op |-> o, prov |-> prov, name |-> name, ret |-> ret, err |-> err,
     before |-> before, scans |-> scans, execs |-> execs,
     disk |-> {}, rc |-> -1, printed |-> FALSE, mkdir |-> FALSE, out |-> <<>>]

\* self.installed_browser_bins() has read the directory
Scanned(call, files) == [call EXCEPT !.disk = files]

\* self.puppeteer_browsers_dir.mkdir(parents=True, exist_ok=True): whether
\* the call has created the directory
Setup(call, prov) == [call EXCEPT !.mkdir = ~dirs[prov]]

\* proc = self.exec(...)
Exited(call, rc) == [call EXCEPT !.rc = rc]

\* output_info = proc.stdout.strip().split('\n')[-1]
Output(call, line) == [call EXCEPT !.out = line]

\* print(proc.stdout.strip()); print(proc.stderr.strip())
Printing(call) == [call EXCEPT !.printed = TRUE]

\* a faulty variant of Lookup: the first of the sorted matches is taken
LookupFirstMatch(prov, name, matching_bins) ==
    IF Len(matching_bins) > 0
    THEN /\ abspaths' = [abspaths EXCEPT ![prov][name] =
                            SomePath(matching_bins[1])]
         /\ calls' = Append(calls, Scanned(Call("get_abspath", prov, name,
                                        SomePath(matching_bins[1]),
                                        "", abspaths[prov][name], 1, 0),
                                        browsers[prov]))
    ELSE IF prov = "playwright" /\ host.syschrome
    THEN /\ abspaths' = [abspaths EXCEPT ![prov][name] = SomePath(SysChrome)]
         /\ calls' = Append(calls, Scanned(Call("get_abspath", prov, name, SomePath(SysChrome),
                                        "", abspaths[prov][name], 2, 0),
                                        browsers[prov]))
    ELSE /\ calls' = Append(calls, Scanned(Call("get_abspath", prov, name, NoPath, "",
                                        abspaths[prov][name],
                                        IF prov = "playwright" THEN 2 ELSE 1, 0),
                                        browsers[prov]))
         /\ UNCHANGED abspaths

\* a faulty variant of Lookup: a lookup that finds nothing leaves an entry
\* without a path in the cache
LookupCachingMiss(prov, name, matching_bins) ==
    IF Len(matching_bins) > 0
    THEN /\ abspaths' = [abspaths EXCEPT ![prov][name] =
                            SomePath(matching_bins[Len(matching_bins)])]
         /\ calls' = Append(calls, Scanned(Call("get_abspath", prov, name,
                                        SomePath(matching_bins[Len(matching_bins)]),
                                        "", abspaths[prov][name], 1, 0),
                                        browsers[prov]))
    ELSE /\ abspaths' = [abspaths EXCEPT ![prov][name] = SomePath(<<>>)]
         /\ calls' = Append(calls, Scanned(Call("get_abspath", prov, name, NoPath, "",
                                        abspaths[prov][name], 1, 0),
                                        browsers[prov]))

\* lines 99-105 (puppeteer), 118-130 (playwright): the lookup when the name
\* is not in the cache; matching_bins are the installed files with the name
\* in their path
Lookup(prov, name, matching_bins) ==
    IF Len(matching_bins) > 0
    THEN /\ abspaths' = [abspaths EXCEPT ![prov][name] =
                            SomePath(matching_bins[Len(matching_bins)])]
         /\ calls' = Append(calls, Scanned(Call("get_abspath", prov, name,
                                        SomePath(matching_bins[Len(matching_bins)]),
                                        "", abspaths[prov][name], 1, 0),
                                        browsers[prov]))
    ELSE IF prov = "playwright" /\ host.syschrome
    THEN /\ abspaths' = [abspaths EXCEPT ![prov][name] = SomePath(SysChrome)]
         /\ calls' = Append(calls, Scanned(Call("get_abspath", prov, name, SomePath(SysChrome),
                                        "", abspaths[prov][name], 2, 0),
                                        browsers[prov]))
    ELSE /\ calls' = Append(calls, Scanned(Call("get_abspath", prov, name, NoPath, "",
                                        abspaths[prov][name],
                                        IF prov = "playwright" THEN 2 ELSE 1, 0),
                                        browsers[prov]))
         /\ UNCHANGED abspaths

\* a faulty variant of on_get_abspath: the cache is not consulted
on_get_abspath_uncached(prov, name) ==
    /\ Len(calls) < MaxCalls
    /\ IF name # Chrome
       THEN /\ calls' = Append(calls, Call("get_abspath", prov, name, NoPath,
                                           "AssertionError", abspaths[prov][name], 0, 0))
            /\ UNCHANGED abspaths
       ELSE Lookup(prov, name,
                   SelectSeq(installed_browser_bins(prov, browsers[prov]),
                             LAMBDA f : Contains(PathStr(f), name)))
    /\ UNCHANGED <<browsers, dirs, thr, host, cfgVars, resVars, iniVars>>

\* a faulty variant of on_get_abspath: any name is looked up
on_get_abspath_unasserted(prov, name) ==
    /\ Len(calls) < MaxCalls
    /\ IF abspaths[prov][name].set
       THEN /\ calls' = Append(calls, Call("get_abspath", prov, name, abspaths[prov][name],
                                           "", abspaths[prov][name], 0, 0))
            /\ UNCHANGED abspaths
       ELSE Lookup(prov, name,
                   SelectSeq(installed_browser_bins(prov, browsers[prov]),
                             LAMBDA f : Contains(PathStr(f), name)))
    /\ UNCHANGED <<browsers, dirs, thr, host, cfgVars, resVars, iniVars>>

\* on_get_abspath(bin_name)
on_get_abspath(prov, name) ==
    /\ Len(calls) < MaxCalls
    /\ IF name # Chrome
       THEN /\ calls' = Append(calls, Call("get_abspath", prov, name, NoPath,
                                           "AssertionError", abspaths[prov][name], 0, 0))
            /\ UNCHANGED abspaths
       ELSE IF abspaths[prov][name].set
       THEN /\ calls' = Append(calls, Call("get_abspath", prov, name, abspaths[prov][name],
                                           "", abspaths[prov][name], 0, 0))
            /\ UNCHANGED abspaths
       ELSE Lookup(prov, name,
                   SelectSeq(installed_browser_bins(prov, browsers[prov]),
                             LAMBDA f : Contains(PathStr(f), name)))
    /\ UNCHANGED <<browsers, dirs, thr, host, cfgVars, resVars, iniVars>>

\* What the installer's subprocess does: [rc, ver, tail]. With rc = 0 it has
\* put the browser of version ver on disk and its output ends with the line
\* "chrome@<ver> <path>", or (tail) with one more line after it.
InstallRuns ==
    {[rc |-> 1, ver |-> <<"9">>, tail |-> FALSE]}
      \cup {[rc |-> 0, ver |-> v, tail |-> FALSE] : v \in Versions}
      \cup {[rc |-> 0, ver |-> <<"9">>, tail |-> TRUE]}

\* the last line of proc.stdout.strip()
LastLine(prov, run) ==
    IF run.tail THEN <<"d", "o", "n", "e">>
    ELSE Chrome \o <<"@">> \o run.ver \o <<" ", "/">> \o PathStr(ChromePath(prov, run.ver))

\* output_info.split(' ', 1)[-1]
RECURSIVE AfterSpace(_, _)
AfterSpace(line, rest) ==
    IF Len(rest) = 0 THEN line
    ELSE IF rest[1] = " " THEN Drop(rest, 1)
    ELSE AfterSpace(line, Drop(rest, 1))

\* a faulty variant of on_install: INSTALLER_BIN_ABSPATH is not looked at
on_install_any_host(prov, name, run) ==
    /\ Len(calls) < MaxCalls
    /\ IF ~host.sys
       THEN /\ calls' = Append(calls, Call("install", prov, name, NoPath, "AssertionError",
                                           abspaths[prov][name], 0, 0))
            /\ UNCHANGED <<abspaths, browsers, dirs>>
       ELSE /\ dirs' = [dirs EXCEPT ![prov] = TRUE]
            /\ IF name # Chrome
               THEN /\ calls' = Append(calls, Setup(Call("install", prov, name, NoPath,
                                                         "AssertionError",
                                                         abspaths[prov][name], 0, 0), prov))
                    /\ UNCHANGED <<abspaths, browsers>>
               ELSE IF run.rc # 0
               THEN /\ calls' = Append(calls, Printing(Exited(Setup(Call("install", prov, name,
                                                                      NoPath, "Exception",
                                                                      abspaths[prov][name],
                                                                      0, 1), prov), run.rc)))
                    /\ UNCHANGED <<abspaths, browsers>>
               ELSE /\ browsers' = [browsers EXCEPT
                                      ![prov] = @ \cup {ChromePath(prov, run.ver)}]
                    /\ abspaths' = [abspaths EXCEPT ![prov][name] =
                                       SomePath(ToPath(AfterSpace(LastLine(prov, run),
                                                                  LastLine(prov, run))))]
                    /\ calls' = Append(calls, Output(Exited(Setup(Call("install", prov, name,
                                                                       NoPath, "",
                                                                       abspaths[prov][name],
                                                                       0, 1), prov), run.rc),
                                                      LastLine(prov, run)))
    /\ UNCHANGED <<thr, host, cfgVars, resVars, iniVars>>

\* a faulty variant of on_install: the return code is not looked at
on_install_unchecked(prov, name, run) ==
    /\ Len(calls) < MaxCalls
    /\ IF ~host.sys
       THEN /\ calls' = Append(calls, Call("install", prov, name, NoPath, "AssertionError",
                                           abspaths[prov][name], 0, 0))
            /\ UNCHANGED <<abspaths, browsers, dirs>>
       ELSE /\ dirs' = [dirs EXCEPT ![prov] = TRUE]
            /\ IF name # Chrome
               THEN /\ calls' = Append(calls, Setup(Call("install", prov, name, NoPath,
                                                         "AssertionError",
                                                         abspaths[prov][name], 0, 0), prov))
                    /\ UNCHANGED <<abspaths, browsers>>
               ELSE IF ~host.installer
               THEN /\ calls' = Append(calls, Setup(Call("install", prov, name, NoPath,
                                                         "Exception",
                                                         abspaths[prov][name], 0, 0), prov))
                    /\ UNCHANGED <<abspaths, browsers>>
               ELSE /\ browsers' = [browsers EXCEPT
                                      ![prov] = @ \cup {ChromePath(prov, run.ver)}]
                    /\ abspaths' = [abspaths EXCEPT ![prov][name] =
                                       SomePath(ToPath(AfterSpace(LastLine(prov, run),
                                                                  LastLine(prov, run))))]
                    /\ calls' = Append(calls, Output(Exited(Setup(Call("install", prov, name,
                                                                       NoPath, "",
                                                                       abspaths[prov][name],
                                                                       0, 1), prov), run.rc),
                                                      LastLine(prov, run)))
    /\ UNCHANGED <<thr, host, cfgVars, resVars, iniVars>>

\* on_install(bin_name), the subprocess doing run; setup() comes first and
\* makes the browsers directory
on_install(prov, name, run) ==
    /\ Len(calls) < MaxCalls
    /\ IF ~host.sys
       THEN /\ calls' = Append(calls, Call("install", prov, name, NoPath, "AssertionError",
                                           abspaths[prov][name], 0, 0))
            /\ UNCHANGED <<abspaths, browsers, dirs>>
       ELSE /\ dirs' = [dirs EXCEPT ![prov] = TRUE]
            /\ IF name # Chrome
               THEN /\ calls' = Append(calls, Setup(Call("install", prov, name, NoPath,
                                                         "AssertionError",
                                                         abspaths[prov][name], 0, 0), prov))
                    /\ UNCHANGED <<abspaths, browsers>>
               ELSE IF ~host.installer
               THEN /\ calls' = Append(calls, Setup(Call("install", prov, name, NoPath,
                                                         "Exception",
                                                         abspaths[prov][name], 0, 0), prov))
                    /\ UNCHANGED <<abspaths, browsers>>
               ELSE IF run.rc # 0
               THEN /\ calls' = Append(calls, Printing(Exited(Setup(Call("install", prov, name,
                                                                      NoPath, "Exception",
                                                                      abspaths[prov][name],
                                                                      0, 1), prov), run.rc)))
                    /\ UNCHANGED <<abspaths, browsers>>
               ELSE /\ browsers' = [browsers EXCEPT
                                      ![prov] = @ \cup {ChromePath(prov, run.ver)}]
                    /\ abspaths' = [abspaths EXCEPT ![prov][name] =
                                       SomePath(ToPath(AfterSpace(LastLine(prov, run),
                                                                  LastLine(prov, run))))]
                    /\ calls' = Append(calls, Output(Exited(Setup(Call("install", prov, name,
                                                                       NoPath, "",
                                                                       abspaths[prov][name],
                                                                       0, 1), prov), run.rc),
                                                      LastLine(prov, run)))
    /\ UNCHANGED <<thr, host, cfgVars, resVars, iniVars>>

\* Somebody else (another process, the operator) puts a chrome into the
\* directory that installed_browser_bins() reads, on a host that has none in
\* any provider's directory; the provider's cache is not involved
OutOfBand(prov) ==
    /\ Len(calls) < MaxCalls
    /\ \A q \in Provs : \A f \in browsers[q] : ~Contains(PathStr(f), Chrome)
    /\ browsers' = [browsers EXCEPT ![prov] = @ \cup {ChromePath(prov, <<"9">>)}]
    /\ dirs' = [dirs EXCEPT ![prov] = TRUE]
    /\ UNCHANGED <<abspaths, calls, thr, host, cfgVars, resVars, iniVars>>

(***************************************************************************)
(* Two threads resolving chrome at the same time. A resolution looks the    *)
(* name up and, when the lookup returns nothing, installs it. The cache     *)
(* _browser_abspaths is an attribute of the class, shared by the threads;   *)
(* a thread gives way to the other one while its subprocess runs.           *)
(***************************************************************************)
Threads == {1, 2}

\* on_get_abspath("chrome") in thread t
ThreadLookup(t, prov) ==
    /\ thr[t].pc = "start"
    /\ IF abspaths[prov][Chrome].set
       THEN /\ calls' = Append(calls, Call("get_abspath", prov, Chrome, abspaths[prov][Chrome],
                                           "", abspaths[prov][Chrome], 0, 0))
            /\ UNCHANGED abspaths
       ELSE Lookup(prov, Chrome,
                   SelectSeq(installed_browser_bins(prov, browsers[prov]),
                             LAMBDA f : Contains(PathStr(f), Chrome)))
    /\ thr' = [thr EXCEPT ![t].pc = IF abspaths'[prov][Chrome].set THEN "found" ELSE "absent",
                          ![t].prov = prov]
    /\ UNCHANGED <<browsers, dirs, host, cfgVars, resVars, iniVars>>

\* a faulty variant of ThreadExec: a thread that finds the name in the cache
\* by now does not run the installer
ThreadExecOnce(t, run) ==
    /\ thr[t].pc = "absent"
    /\ IF ~host.sys
       THEN /\ calls' = Append(calls, Call("install", thr[t].prov, Chrome, NoPath,
                                           "AssertionError", abspaths[thr[t].prov][Chrome],
                                           0, 0))
            /\ thr' = [thr EXCEPT ![t].pc = "failed"]
            /\ UNCHANGED <<browsers, dirs>>
       ELSE /\ dirs' = [dirs EXCEPT ![thr[t].prov] = TRUE]
            /\ IF ~host.installer
               THEN /\ calls' = Append(calls, Setup(Call("install", thr[t].prov, Chrome, NoPath,
                                                         "Exception",
                                                         abspaths[thr[t].prov][Chrome],
                                                         0, 0), thr[t].prov))
                    /\ thr' = [thr EXCEPT ![t].pc = "failed"]
                    /\ UNCHANGED browsers
               ELSE IF abspaths[thr[t].prov][Chrome].set
               THEN /\ thr' = [thr EXCEPT ![t].pc = "installed"]
                    /\ UNCHANGED <<browsers, calls>>
               ELSE /\ browsers' = [browsers EXCEPT
                                      ![thr[t].prov] =
                                          IF run.rc = 0
                                          THEN @ \cup {ChromePath(thr[t].prov, run.ver)}
                                          ELSE @]
                    /\ thr' = [thr EXCEPT ![t].pc = "running", ![t].run = run,
                                          ![t].execs = @ + 1]
                    /\ UNCHANGED calls
    /\ UNCHANGED <<abspaths, host, cfgVars, resVars, iniVars>>

\* on_install("chrome") in thread t up to the end of the subprocess (lines
\* 107-122): setup(), the check of INSTALLER_BIN_ABSPATH, self.exec(...)
ThreadExec(t, run) ==
    /\ thr[t].pc = "absent"
    /\ IF ~host.sys
       THEN /\ calls' = Append(calls, Call("install", thr[t].prov, Chrome, NoPath,
                                           "AssertionError", abspaths[thr[t].prov][Chrome],
                                           0, 0))
            /\ thr' = [thr EXCEPT ![t].pc = "failed"]
            /\ UNCHANGED <<browsers, dirs>>
       ELSE /\ dirs' = [dirs EXCEPT ![thr[t].prov] = TRUE]
            /\ IF ~host.installer
               THEN /\ calls' = Append(calls, Setup(Call("install", thr[t].prov, Chrome, NoPath,
                                                         "Exception",
                                                         abspaths[thr[t].prov][Chrome],
                                                         0, 0), thr[t].prov))
                    /\ thr' = [thr EXCEPT ![t].pc = "failed"]
                    /\ UNCHANGED browsers
               ELSE /\ browsers' = [browsers EXCEPT
                                      ![thr[t].prov] =
                                          IF run.rc = 0
                                          THEN @ \cup {ChromePath(thr[t].prov, run.ver)}
                                          ELSE @]
                    /\ thr' = [thr EXCEPT ![t].pc = "running", ![t].run = run,
                                          ![t].execs = @ + 1]
                    /\ UNCHANGED calls
    /\ UNCHANGED <<abspaths, host, cfgVars, resVars, iniVars>>

\* the rest of on_install in thread t (lines 124-136): the check of the
\* return code and the write to the cache
ThreadFinish(t) ==
    /\ thr[t].pc = "running"
    /\ IF thr[t].run.rc # 0
       THEN /\ calls' = Append(calls, Printing(Exited(Call("install", thr[t].prov, Chrome,
                                                           NoPath, "Exception",
                                                           abspaths[thr[t].prov][Chrome],
                                                           0, 1), thr[t].run.rc)))
            /\ thr' = [thr EXCEPT ![t].pc = "failed"]
            /\ UNCHANGED abspaths
       ELSE /\ abspaths' = [abspaths EXCEPT ![thr[t].prov][Chrome] =
                               SomePath(ToPath(AfterSpace(LastLine(thr[t].prov, thr[t].run),
                                                          LastLine(thr[t].prov, thr[t].run))))]
            /\ calls' = Append(calls, Output(Exited(Call("install", thr[t].prov, Chrome, NoPath,
                                                         "", abspaths[thr[t].prov][Chrome],
                                                         0, 1), thr[t].run.rc),
                                             LastLine(thr[t].prov, thr[t].run)))
            /\ thr' = [thr EXCEPT ![t].pc = "installed"]
    /\ UNCHANGED <<browsers, dirs, host, cfgVars, resVars, iniVars>>

(***************************************************************************)
(* Binary descriptors and their resolution. A descriptor names a binary    *)
(* and lists the providers that may supply it, in order of preference      *)
(* (binproviders_supported). Loading it asks the providers in that order   *)
(* whether they have the binary and records the first that does.           *)
(***************************************************************************)
Binaries == {"yt-dlp", "ffmpeg", "playwright"}

binproviders_supported(bin) ==
    CASE bin = "yt-dlp" -> <<"pip", "apt", "brew", "env">>
      [] bin = "ffmpeg" -> <<"apt", "brew", "env">>
      [] bin = "playwright" -> <<"lib_pip", "venv_pip", "sys_pip", "env">>

\* every [bin, provider] pair of a binary and a provider it lists
Supplies ==
    UNION {{[bin |-> b, provider |-> binproviders_supported(b)[i]] :
              i \in 1..Len(binproviders_supported(b))} : b \in Binaries}

NotLoaded == [tried |-> FALSE, set |-> FALSE, provider |-> "", abspath |-> <<>>, asked |-> 0]

\* the path at which a provider has a binary
AbspathAt(provider, bin) == <<provider, "bin", bin>>

\* a faulty variant of AskFrom: the last provider that has the binary wins
RECURSIVE AskFromKeepLast(_, _, _, _)
AskFromKeepLast(bin, providers, i, found) ==
    IF i > Len(providers) THEN [found EXCEPT !.tried = TRUE, !.asked = Len(providers)]
    ELSE IF [bin |-> bin, provider |-> providers[i]] \in present
    THEN AskFromKeepLast(bin, providers, i + 1,
                         [found EXCEPT !.set = TRUE, !.provider = providers[i],
                                       !.abspath = AbspathAt(providers[i], bin)])
    ELSE AskFromKeepLast(bin, providers, i + 1, found)

\* the providers from the i-th on are asked in turn; found is the record
\* so far
RECURSIVE AskFrom(_, _, _, _)
AskFrom(bin, providers, i, found) ==
    IF i > Len(providers) THEN [found EXCEPT !.tried = TRUE, !.asked = Len(providers)]
    ELSE IF [bin |-> bin, provider |-> providers[i]] \in present
    THEN [found EXCEPT !.tried = TRUE, !.set = TRUE, !.provider = providers[i],
                       !.abspath = AbspathAt(providers[i], bin), !.asked = i]
    ELSE AskFrom(bin, providers, i + 1, found)

\* the first load of a binary descriptor
load(bin) ==
    /\ ~loaded[bin].tried
    /\ loaded' = [loaded EXCEPT ![bin] = AskFrom(bin, binproviders_supported(bin), 1, NotLoaded)]
    /\ UNCHANGED <<present, cfgVars, binVars, iniVars>>

(***************************************************************************)
(* Initial states                                                          *)
(***************************************************************************)
NoLast == [name |-> "", kwargs |-> <<>>, err |-> "", seq |-> 0]

AnyCfg ==
    /\ schema \in Schemas
    /\ flags \in [defaults : BOOLEAN, configfile : BOOLEAN, environment : BOOLEAN]
    /\ file \in InitialFiles
    /\ environ \in [Procs -> InitialEnvs]
    /\ environ[1] = environ[2]

OneCfg ==
    /\ schema = <<Field("TIMEOUT", Const(60)), Field("MEDIA_TIMEOUT", Copy("TIMEOUT"))>>
    /\ flags = [defaults |-> TRUE, configfile |-> TRUE, environment |-> TRUE]
    /\ file = Absent
    /\ environ = [p \in Procs |-> [k \in EnvKeys |-> Unset]]

InitCfg ==
    /\ bak = Absent
    /\ orig = file
    /\ cfg = [p \in Procs |-> NoData]
    /\ built = [p \in Procs |-> FALSE]
    /\ pc = [p \in Procs |-> "idle"]
    /\ op = [p \in Procs |-> [name |-> "", kwargs |-> <<>>]]
    /\ buf = [p \in Procs |-> <<>>]
    /\ out = [p \in Procs |-> <<>>]
    /\ prec = [p \in Procs |-> [keys |-> {}, data |-> NoData]]
    /\ last = [p \in Procs |-> NoLast]
    /\ obs = [p \in Procs |-> {}]
    /\ evals = [p \in Procs |-> [f \in FieldNames |-> 0]]
    /\ nops = 0

\* the files of other packages in a provider's directory
Others(prov) == IF prov = "puppeteer" THEN {PuppeteerFirefox} ELSE {PlaywrightFfmpeg}

\* hosts: whether the system package provider is initialised (setup), whether
\* INSTALLER_BIN is found, whether google-chrome-stable is in $PATH
Hosts ==
    {[sys |-> TRUE, installer |-> TRUE, syschrome |-> FALSE],
     [sys |-> TRUE, installer |-> TRUE, syschrome |-> TRUE],
     [sys |-> TRUE, installer |-> FALSE, syschrome |-> FALSE],
     [sys |-> FALSE, installer |-> TRUE, syschrome |-> TRUE]}

AnyBin ==
    /\ browsers \in {[prov \in Provs |-> {}],
                     [prov \in Provs |-> Others(prov)],
                     [prov \in Provs |-> Others(prov) \cup {ChromePath(prov, <<"9">>)}],
                     [prov \in Provs |-> {ChromePath(prov, v) : v \in Versions}]}
    /\ dirs = [prov \in Provs |-> browsers[prov] # {}]
    /\ host \in Hosts

OneBin ==
    /\ browsers = [prov \in Provs |-> {}]
    /\ dirs = [prov \in Provs |-> FALSE]
    /\ host = [sys |-> TRUE, installer |-> TRUE, syschrome |-> FALSE]

InitBin ==
    /\ abspaths = [prov \in Provs |-> [name \in BinNames |-> NoPath]]
    /\ calls = <<>>
    /\ thr = [t \in Threads |-> [pc |-> "start", prov |-> "puppeteer",
                                  run |-> [rc |-> 0, ver |-> <<"9">>, tail |-> FALSE],
                                  execs |-> 0]]

AnyRes == present \in SUBSET Supplies

OneRes == present = {}

InitRes == loaded = [bin \in Binaries |-> NotLoaded]

InitIni ==
    /\ structured = [err |-> "", text |-> <<>>]
    /\ converted = FALSE

(***************************************************************************)
(* Specification of config loading: one process, any schema, any flags,    *)
(* any initial file and environment                                        *)
(***************************************************************************)
Init ==
    /\ AnyCfg /\ InitCfg
    /\ OneBin /\ InitBin
    /\ OneRes /\ InitRes
    /\ legacy = <<>> /\ InitIni

LoadStep(p) ==
    \/ LoadSources(p)
    \/ MigRead(p)
    \/ BakOpen(p)
    \/ BakWrite(p)
    \/ MigConvert(p)
    \/ CfgOpen(p)
    \/ CfgWrite(p)
    \/ Reparse(p)
    \/ Finish(p)

Next ==
    \/ Construct(1)
    \/ Rebuild(1)
    \/ \E kwargs \in KwargSets : update_in_place(1, kwargs)
    \/ LoadStep(1)

Spec == Init /\ [][Next]_vars

(***************************************************************************)
(* Specification of the browser providers: any files on disk, any host,    *)
(* any sequence of lookups and installs                                    *)
(***************************************************************************)
InitBinSpec ==
    /\ OneCfg /\ InitCfg
    /\ AnyBin /\ InitBin
    /\ OneRes /\ InitRes
    /\ legacy = <<>> /\ InitIni

NextBin ==
    \/ \E prov \in Provs, name \in BinNames : on_get_abspath(prov, name)
    \/ \E prov \in Provs, name \in BinNames, run \in InstallRuns : on_install(prov, name, run)
    \/ \E prov \in Provs : OutOfBand(prov)

SpecBin == InitBinSpec /\ [][NextBin]_vars

(***************************************************************************)
(* Specification of two threads resolving chrome at the same time          *)
(***************************************************************************)
NextRace ==
    \/ \E t \in Threads, prov \in Provs : ThreadLookup(t, prov)
    \/ \E t \in Threads, run \in InstallRuns : ThreadExec(t, run)
    \/ \E t \in Threads : ThreadFinish(t)

SpecRace == InitBinSpec /\ [][NextRace]_vars

(***************************************************************************)
(* Specification of the file layer: the first load of a config set from a  *)
(* structured file with tables of known and unknown names, keys that are   *)
(* fields and keys that are not                                            *)
(***************************************************************************)
FlatFiles ==
    {TomlTimeout30, TomlFlat,
     <<Hdr("SERVER_CONFIG"), KV("TIMEOUT", <<"3", "0">>, TRUE),
       KV("EXTRA", <<"7", "7">>, TRUE),
       Hdr("GENERAL"), KV("MEDIA_TIMEOUT", <<"7", "7">>, TRUE),
       Hdr("GENERAL_CONFIG"), KV("TIMEOUT", <<"4", "0">>, TRUE)>>,
     <<KV("TIMEOUT", <<"3", "0">>, TRUE), KV("EXTRA", <<"7", "7">>, TRUE),
       Hdr("SERVER_CONFIG"), KV("TIMEOUT", <<"4", "0">>, TRUE),
       KV("MEDIA_TIMEOUT", <<"5", "0">>, TRUE)>>,
     <<KV("SERVER_CONFIG", <<"7", "7">>, TRUE), KV("EXTRA", <<"7", "7">>, TRUE),
       Hdr("GENERAL"), KV("TIMEOUT", <<"7", "7">>, TRUE)>>,
     <<Hdr("GENERAL"), KV("TIMEOUT", <<"7", "7">>, TRUE),
       Hdr("SERVER_CONFIG"), KV("MEDIA_TIMEOUT", <<"5", "0">>, TRUE)>>,
     <<Hdr("SERVER_CONFIG"), KV("TIMEOUT", <<"\"", "a", "b", "c", "\"">>, TRUE),
       Hdr("GENERAL_CONFIG"), KV("TIMEOUT", <<"4", "0">>, TRUE)>>,
     <<Hdr("SERVER_CONFIG"), KV("MEDIA_TIMEOUT", <<"5", "0">>, TRUE),
       Hdr("GENERAL_CONFIG"), KV("MEDIA_TIMEOUT", <<"\"", "a", "b", "c", "\"">>, TRUE)>>,
     <<Hdr("TIMEOUT"), KV("EXTRA", <<"7", "7">>, TRUE)>>,
     <<Hdr("SERVER_CONFIG"), KV("TIMEOUT", <<"3", "0">>, TRUE),
       Hdr("TIMEOUT"), KV("EXTRA", <<"7", "7">>, TRUE)>>}

InitFlat ==
    /\ schema \in {<<Field("TIMEOUT", Const(60)), Field("MEDIA_TIMEOUT", Copy("TIMEOUT"))>>,
                    <<Field("MEDIA_TIMEOUT", Fn0(5)), Field("TIMEOUT", Const(60))>>}
    /\ flags = [defaults |-> TRUE, configfile |-> TRUE, environment |-> TRUE]
    /\ file \in {File(t) : t \in FlatFiles}
    /\ environ \in {[p \in Procs |-> [k \in EnvKeys |-> Unset]],
                     [p \in Procs |-> [k \in EnvKeys |->
                         IF k = "TIMEOUT" THEN EnvStr(<<"1", "0">>) ELSE Unset]]}
    /\ InitCfg
    /\ OneBin /\ InitBin
    /\ OneRes /\ InitRes
    /\ legacy = <<>> /\ InitIni

NextFlat ==
    \/ Construct(1)
    \/ LoadSources(1)
    \/ Finish(1)

SpecFlat == InitFlat /\ [][NextFlat]_vars

(***************************************************************************)
(* Specification of two processes loading a config set from the same       *)
(* directory while the config file is no TOML: their steps interleave in   *)
(* any order                                                               *)
(***************************************************************************)
InitMig ==
    /\ schema = <<Field("TIMEOUT", Const(60)), Field("MEDIA_TIMEOUT", Copy("TIMEOUT"))>>
    /\ flags = [defaults |-> TRUE, configfile |-> TRUE, environment |-> TRUE]
    /\ file \in {File(t) : t \in {IniTimeout30, IniNone, IniLowerSection, Garbage}}
    /\ environ = [p \in Procs |-> [k \in EnvKeys |-> Unset]]
    /\ InitCfg
    /\ OneBin /\ InitBin
    /\ OneRes /\ InitRes
    /\ legacy = <<>> /\ InitIni

NextMig ==
    \E p \in Procs :
        \/ Construct(p)
        \/ Rebuild(p)
        \/ LoadStep(p)

SpecMig == InitMig /\ [][NextMig]_vars

(***************************************************************************)
(* Specification of the loading of binary descriptors: any providers have  *)
(* any of the binaries, each descriptor is loaded once                     *)
(***************************************************************************)
InitLoad ==
    /\ OneCfg /\ InitCfg
    /\ OneBin /\ InitBin
    /\ AnyRes /\ InitRes
    /\ legacy = <<>> /\ InitIni

NextLoad == \E bin \in Binaries : load(bin)

SpecLoad == InitLoad /\ [][NextLoad]_vars

(***************************************************************************)
(* Specification of ini_to_toml.convert as a function: one call on any     *)
(* legacy file                                                             *)
(***************************************************************************)
LegacySections == {"SERVER_CONFIG", "server_config", "GENERAL"}
LegacyKeys == {"TIMEOUT", "timeout"}
LegacyValues ==
    {<<"3", "0">>, <<"0">>, <<"-", "5">>, <<"T", "r", "u", "e">>, <<"y", "e", "s">>,
     <<"n", "o">>, <<"a", "b", "c">>, <<"\"", "a", "\"">>, <<"'", "a", "'">>,
     <<"[", "1", ",", " ", "2", "]">>, <<"[", "'", "a", "'", "]">>, <<"[", "]">>,
     <<"[", "N", "o", "n", "e", "]">>, <<"N", "o", "n", "e">>, <<"1", ".", "5">>,
     <<"(", "1", ",", " ", "2", ")">>, <<"{", "'", "a", "'", ":", " ", "1", "}">>,
     <<"5", "0", "%">>, <<"^2">>, <<"F", "a", "l", "s", "e">>}

LegacyFiles ==
    {<<Hdr(sec), KV(key, val, FALSE)>> :
        sec \in LegacySections, key \in LegacyKeys, val \in LegacyValues}
      \cup {<<Hdr("DEFAULT"), KV("EXTRA", <<"1">>, FALSE), Hdr("SERVER_CONFIG"),
              KV("TIMEOUT", <<"3", "0">>, FALSE)>>,
            <<Hdr("GENERAL"), KV("SAVE_MEDIA", <<"F", "a", "l", "s", "e">>, FALSE)>>,
            <<Hdr("SERVER_CONFIG"), KV("TIMEOUT", <<"3", "0">>, FALSE),
              KV("MEDIA_TIMEOUT", <<"T", "r", "u", "e">>, FALSE), Hdr("GENERAL"),
              KV("EXTRA", <<"a", "b", "c">>, FALSE)>>}

InitIniSpec ==
    /\ OneCfg /\ InitCfg
    /\ OneBin /\ InitBin
    /\ OneRes /\ InitRes
    /\ legacy \in LegacyFiles /\ InitIni

\* new_toml = convert(ini_str)
Convert ==
    /\ ~converted
    /\ structured' = convert(legacy)
    /\ converted' = TRUE
    /\ UNCHANGED <<legacy, cfgVars, binVars, resVars>>

NextIni == Convert

SpecIni == InitIniSpec /\ [][NextIni]_vars

(***************************************************************************)
(* Properties of config loading (Spec)                                     *)
(***************************************************************************)
\* the last operation of process p was a load that returned: cfg[p] is its
\* result, prec[p] and environ[p] are what it read
Loaded(p) == pc[p] = "idle" /\ last[p].name # "" /\ last[p].err = ""

\* the last operation of process p ran up to the resolution of the values,
\* which returned or failed
Reached(p) ==
    pc[p] = "idle" /\ last[p].name # "" /\ last[p].err \in {"", "ValidationError"}

AllLayers == flags.defaults /\ flags.configfile /\ flags.environment

IntOf(v) == VInt(ValidateInt(v).n)

EnvDefines(p, f) == environ[p][f].set
FileDefines(p, f) == prec[p].data[f].t # "unset"

\* the layered value the load of process p had for field f, if any
LayerValue(p, f) ==
    FirstDefined(Sources(Popped(prec[p].keys).keys), prec[p].data, environ[p], f)

LayerDefines(p, f) == LayerValue(p, f).t # "unset"

\* C1: after a load with all three layers enabled, a field with a constant
\* default that the file defines holds the environment's value if the
\* environment defines it too, and the file's value otherwise.
C1_EnvironmentThenFile ==
    \A f \in Fields(schema) :
        (Loaded(1) /\ AllLayers /\ DefaultOf(schema, f).kind = "const" /\ FileDefines(1, f))
            => IF EnvDefines(1, f)
               THEN ValidateInt(VStr(environ[1][f].s)).ok
                        => cfg[1][f] = IntOf(VStr(environ[1][f].s))
               ELSE cfg[1][f] = IntOf(prec[1].data[f])

\* a legacy INI file: one that is no TOML and that configparser reads
IsLegacy(f) == f.exists /\ ~TomlParse(f.text).ok /\ IniParse(f.text).err = ""

Migrating(p) ==
    pc[p] \in {"mig_read", "bak_open", "bak_write", "convert", "cfg_open", "cfg_write",
               "reparse"}

\* C2: when the config file was a legacy INI file at first, the backup file,
\* once written, holds the bytes of that file whatever loads follow, and
\* once a load has returned no later load migrates again.
C2_BackupKeepsOriginal ==
    IsLegacy(orig) =>
        /\ (bak.exists /\ pc[1] # "bak_write") => bak.text = orig.text
        /\ built[1] => ~Migrating(1)

\* C3: in a migration the content is read, then copied unmodified to the
\* backup, then converted, and only then the config file is overwritten with
\* the converted text; at every point of it the config file or the backup
\* holds the whole content that was read.
C3_MigrationOrder ==
    /\ pc[1] \in {"bak_open", "bak_write", "convert"} => file = File(buf[1])
    /\ pc[1] \in {"convert", "cfg_open", "cfg_write", "reparse"} => bak = File(buf[1])
    /\ pc[1] \in {"cfg_open", "cfg_write", "reparse"}
          => convert(buf[1]).err = "" /\ out[1] = convert(buf[1]).text
    /\ pc[1] = "reparse" => file = File(out[1])
    /\ (Migrating(1) /\ pc[1] # "mig_read") => (file = File(buf[1]) \/ bak = File(buf[1]))

\* C3 happens: the config file is open for writing and empty while the
\* backup holds the content that was read
C3_Overwriting ==
    pc[1] = "cfg_write" /\ file = File(<<>>) /\ bak = File(buf[1]) /\ buf[1] # <<>>

\* C4: when the config file is absent or TOML at first, no load changes it
\* and none creates the backup.
C4_NoMigrationWithoutLegacy ==
    (~orig.exists \/ TomlParse(orig.text).ok) => (file = orig /\ bak = Absent)

\* C4 happens: a TOML file has been loaded twice
C4_LoadedTwice ==
    /\ orig.exists /\ TomlParse(orig.text).ok
    /\ nops >= 2 /\ Loaded(1) /\ last[1].name = "rebuild"
    /\ file = orig /\ bak = Absent

\* whether the field an observation is about was settled when it was read:
\* it has a layered value or a constant default, or it is declared before
\* the reader
Settled(p, o) ==
    \/ LayerDefines(p, o.read)
    \/ DefaultOf(schema, o.read).kind = "const"
    \/ DeclIndex(schema, o.read) < DeclIndex(schema, o.reader)

\* C6 as stated: a computed default that reads another field never observes
\* a raw default function: it observes an int, the field's final value.
C6_NeverObservesRaw ==
    Reached(1) => \A o \in obs[1] :
        o.seen.t = "int" /\ (Loaded(1) => o.seen = cfg[1][o.read])

\* C6, amended: a computed default that reads another field observes that
\* field's final value when the field has a layered value or a constant
\* default or is declared before the reader; it observes the field's raw
\* default function when the field has a function default, no layered value
\* and is declared after the reader.
C6_ObservesFinalWhenSettled ==
    Reached(1) => \A o \in obs[1] :
        IF Settled(1, o)
        THEN o.seen.t = "int" /\ (Loaded(1) => o.seen = cfg[1][o.read])
        ELSE o.seen = RawFn(o.read)

\* C6 happens: a computed default has read a field whose own default
\* function had been applied before
C6_ReadsAppliedDefault ==
    \E o \in obs[1] :
        /\ Loaded(1)
        /\ DefaultOf(schema, o.read).kind = "fn0" /\ ~LayerDefines(1, o.read)
        /\ o.seen = cfg[1][o.read]

\* a schema whose two defaults read each other
Cyclic(sch) == \A i \in 1..Len(sch) : sch[i].default.kind = "copy"

C8_UpdateInPlaceOverrides ==
    (Loaded(1) /\ last[1].name = "update_in_place" /\ flags.environment) =>
        \A i \in 1..Len(last[1].kwargs) :
            /\ environ[1][last[1].kwargs[i].key] = EnvStr(IntToStr(last[1].kwargs[i].v))
            /\ cfg[1][last[1].kwargs[i].key] = VInt(last[1].kwargs[i].v)

\* some enabled layer defines field f
SomeLayerDefines(p, f) ==
    \/ flags.environment /\ EnvDefines(p, f)
    \/ flags.configfile /\ FileDefines(p, f)
    \/ flags.defaults /\ DefaultOf(schema, f).kind = "const"

\* what the enabled layers give field f in the order environment, file,
\* constant default
Expected(p, f) ==
    IF flags.environment /\ EnvDefines(p, f) THEN VStr(environ[p][f].s)
    ELSE IF flags.configfile /\ FileDefines(p, f) THEN prec[p].data[f]
    ELSE VInt(DefaultOf(schema, f).n)

\* C9: after a load with some layer disabled, every field that an enabled
\* layer defines holds the value of the highest enabled layer that defines
\* it, in the order defaults, file, environment.
C9_DisabledLayersKeepOrder ==
    \A f \in Fields(schema) :
        (Loaded(1) /\ ~AllLayers /\ SomeLayerDefines(1, f) /\ ValidateInt(Expected(1, f)).ok)
            => cfg[1][f] = IntOf(Expected(1, f))

(***************************************************************************)
(* Properties of ini_to_toml.convert (SpecIni)                             *)
(***************************************************************************)
Shaped(v) == v.t \in {"bool", "int", "str", "list"}

\* the [section, key, value] entries of a legacy file, each value being
\* load_ini_value of what the file has for the key
DirectMapping(ini) ==
    UNION {{[section |-> ini.secs[i].key, key |-> ini.secs[i].val[j].key,
             value |-> load_ini_value(ini.secs[i].val[j].val)] :
                j \in 1..Len(ini.secs[i].val)} : i \in 1..Len(ini.secs)}

\* the [section, key, value] entries of a TOML document
DocMapping(doc) ==
    UNION {IF doc[i].val.t = "table"
           THEN {[section |-> doc[i].key, key |-> doc[i].val.items[j].key,
                  value |-> doc[i].val.items[j].val] : j \in 1..Len(doc[i].val.items)}
           ELSE {[section |-> "", key |-> doc[i].key, value |-> doc[i].val]} :
              i \in 1..Len(doc)}

\* C5: for a legacy file whose values are booleans, ints, strings or lists,
\* convert returns a text that parses as TOML into the same sections, keys
\* and typed values that load_ini_value gives for the legacy file.
C5_RoundTrip ==
    (/\ converted
     /\ IniParse(legacy).err = ""
     /\ \A m \in DirectMapping(IniParse(legacy)) : Shaped(m.value))
        => /\ structured.err = ""
           /\ TomlParse(structured.text).ok
           /\ DocMapping(TomlParse(structured.text).doc) = DirectMapping(IniParse(legacy))

(***************************************************************************)
(* Properties of the browser providers (SpecBin)                           *)
(***************************************************************************)
\* calls i - 1 and i are lookups of the same name at the same provider
LookedUpTwice(i) ==
    /\ i > 1
    /\ calls[i - 1].op = "get_abspath" /\ calls[i].op = "get_abspath"
    /\ calls[i - 1].prov = calls[i].prov /\ calls[i - 1].name = calls[i].name

\* C10 as stated: of two lookups of a name in a row the second one does not
\* probe.
C10_SecondLookupNeverProbes ==
    \A i \in 1..Len(calls) :
        LookedUpTwice(i) => (calls[i].scans = 0 /\ calls[i].execs = 0)

\* C10, amended: a lookup of a name that has a cache entry returns the
\* entry and neither reads the filesystem nor runs a subprocess; so does the
\* second of two lookups in a row when the first one found a path. (After a
\* lookup that found nothing the next one probes again.)
C10_CacheHitDoesNotProbe ==
    \A i \in 1..Len(calls) :
        /\ (calls[i].op = "get_abspath" /\ calls[i].err = "" /\ calls[i].before.set)
              => (calls[i].ret = calls[i].before /\ calls[i].scans = 0 /\ calls[i].execs = 0)
        /\ (LookedUpTwice(i) /\ calls[i - 1].ret.set)
              => (calls[i].ret = calls[i - 1].ret /\ calls[i].scans = 0 /\ calls[i].execs = 0)

\* C10 happens: a lookup that probed and found a path is followed by a
\* lookup of the same name
C10_ProbeThenHit ==
    \E i \in 1..Len(calls) :
        LookedUpTwice(i) /\ calls[i - 1].scans > 0 /\ calls[i - 1].ret.set /\ calls[i].before.set

\* the chrome files among the files of a provider's directory, as
\* on_get_abspath selects them
ChromeBins(prov, files) ==
    SelectSeq(installed_browser_bins(prov, files), LAMBDA f : Contains(PathStr(f), Chrome))

\* the last call made; every call is the last one in the states that follow it
NoCall == Call("", "puppeteer", Chrome, NoPath, "", NoPath, 0, 0)
Made == IF Len(calls) > 0 THEN calls[Len(calls)] ELSE NoCall

Rejected(call) ==
    /\ call.err = "AssertionError"
    /\ call.scans = 0 /\ call.execs = 0 /\ ~call.ret.set
    /\ ~call.before.set /\ ~abspaths[call.prov][call.name].set

\* C13 as stated: a lookup or install for a name other than "chrome" raises
\* an assertion error before any filesystem change, subprocess invocation or
\* cache write.
C13_OtherNameFailsBeforeAnyEffect ==
    (Made.op # "" /\ Made.name # Chrome) => (Rejected(Made) /\ ~Made.mkdir)

\* C13, amended: a lookup or install for a name other than "chrome" raises
\* an assertion error before any subprocess invocation or cache write; a
\* lookup changes nothing in the filesystem, while an install has run
\* setup() first, which makes the browsers directory when it is missing and
\* the system provider is initialised.
C13_OtherNameFailsSetupFirst ==
    (Made.op # "" /\ Made.name # Chrome)
       => /\ Rejected(Made)
          /\ Made.mkdir => (Made.op = "install" /\ host.sys /\ dirs[Made.prov])

\* C13 happens: an install for another name has made the directory and
\* raised the assertion error
C13_InstallOtherNameMadeDir ==
    /\ Made.op = "install" /\ Made.name = Firefox
    /\ Made.err = "AssertionError" /\ Made.mkdir

\* the calls made for a name at a provider, and the last of them
CallsFor(prov, name) ==
    {i \in 1..Len(calls) : calls[i].prov = prov /\ calls[i].name = name}

LastFor(prov, name) == CHOOSE i \in CallsFor(prov, name) : \A j \in CallsFor(prov, name) : j <= i

\* C14 as stated: once a name has a cached path, no later call removes the
\* entry or replaces it with another path (a name never called for has none).
C14_ResolvedIsTerminal ==
    \A prov \in Provs, name \in BinNames :
        IF CallsFor(prov, name) = {} THEN ~abspaths[prov][name].set
        ELSE calls[LastFor(prov, name)].before.set
                => abspaths[prov][name] = calls[LastFor(prov, name)].before

\* how a call for a name may leave the name's cache entry: an entry is never
\* removed; an entry is made by a lookup that read the directory and returns
\* it, or by an install whose subprocess exited with code 0; an entry is
\* replaced by such an install only; an install that fails changes nothing
Transition(call, after) ==
    /\ call.before.set => after.set
    /\ (~call.before.set /\ after.set)
          => \/ call.op = "get_abspath" /\ call.scans > 0 /\ call.ret = after
             \/ call.op = "install" /\ call.rc = 0 /\ call.err = ""
    /\ (call.before.set /\ after # call.before)
          => (call.op = "install" /\ call.rc = 0 /\ call.err = "")
    /\ call.err # "" => after = call.before

\* C14, amended: a name's cache entry is never removed and no lookup
\* replaces it; a name without an entry gets one by a lookup that finds the
\* binary, or by an install that succeeds, and stays without one when the
\* call fails; an install that succeeds writes the entry whether or not there
\* was one, so it can replace a cached path by another.
C14_OnlyInstallReplaces ==
    \A prov \in Provs, name \in BinNames :
        IF CallsFor(prov, name) = {} THEN ~abspaths[prov][name].set
        ELSE Transition(calls[LastFor(prov, name)], abspaths[prov][name])

\* C14 happens: a lookup has cached a path and a later install has replaced
\* it by another
C14_InstallReplacedEntry ==
    \E i \in 1..Len(calls) :
        /\ i > 1 /\ i = Len(calls)
        /\ calls[i - 1].op = "get_abspath" /\ calls[i - 1].ret.set
        /\ calls[i].op = "install" /\ calls[i].prov = calls[i - 1].prov
        /\ calls[i].name = calls[i - 1].name
        /\ calls[i].before = calls[i - 1].ret
        /\ abspaths[calls[i].prov][calls[i].name].set
        /\ abspaths[calls[i].prov][calls[i].name] # calls[i].before

(***************************************************************************)
(* Properties of concurrent resolutions (SpecRace)                         *)
(***************************************************************************)
\* C15: nothing makes a resolution wait for, or look at, the other one: on a
\* host where installs are possible, every resolution whose lookup returned
\* nothing and whose install has ended has run the installer subprocess
\* itself, so two resolutions that both found the name absent run it twice.
C15_EveryAbsentLookupInstalls ==
    \A t \in Threads :
        /\ thr[t].pc = "installed" => thr[t].execs = 1
        /\ (thr[t].pc = "failed" /\ host.sys /\ host.installer) => thr[t].execs = 1
        /\ thr[t].pc = "found" => thr[t].execs = 0

\* C15 happens: both threads looked chrome up at the same provider with an
\* empty cache, got nothing, and both have run the installer
C15_DuplicateInstall ==
    /\ thr[1].prov = thr[2].prov
    /\ \A t \in Threads : thr[t].pc = "installed" /\ thr[t].execs = 1
    /\ Len(calls) = 4
    /\ \A i \in 1..2 : /\ calls[i].op = "get_abspath" /\ ~calls[i].before.set
                        /\ ~calls[i].ret.set
    /\ \A i \in 3..4 : calls[i].op = "install" /\ calls[i].execs = 1

(***************************************************************************)
(* Properties of the resolution of defaults (Spec)                         *)
(***************************************************************************)
\* C16: after a load, a field with a constant default for which neither the
\* config file nor the environment has a value holds exactly that default.
C16_ConstantDefaultOnly ==
    Loaded(1) => \A f \in FieldNames :
        (DefaultOf(schema, f).kind = "const" /\ ~FileDefines(1, f) /\ ~EnvDefines(1, f))
           => cfg[1][f] = VInt(DefaultOf(schema, f).n)

\* C16 happens: a load from an existing config file that has no value for a
\* field with a constant default
C16_DefaultUsed ==
    /\ Loaded(1) /\ file.exists /\ AllLayers
    /\ \E f \in FieldNames :
          /\ DefaultOf(schema, f).kind = "const"
          /\ ~FileDefines(1, f) /\ ~EnvDefines(1, f)
          /\ cfg[1][f] = VInt(60)

\* the schema of the example: TIMEOUT with the constant default 60 and
\* MEDIA_TIMEOUT with the default lambda cfg: cfg.TIMEOUT, in either order
Example(sch) ==
    /\ DefaultOf(sch, "TIMEOUT") = Const(60)
    /\ DefaultOf(sch, "MEDIA_TIMEOUT") = Copy("TIMEOUT")

\* C17: after a load of the example schema in which no layer has a value for
\* MEDIA_TIMEOUT, MEDIA_TIMEOUT is what TIMEOUT is; both are 60 when neither
\* the file nor the environment has a value for TIMEOUT, and both are 10
\* when the environment (its layer enabled) sets TIMEOUT=10 and the file has
\* no value for TIMEOUT.
C17_CopyFollowsSibling ==
    (Loaded(1) /\ Example(schema) /\ ~LayerDefines(1, "MEDIA_TIMEOUT")) =>
        /\ cfg[1]["MEDIA_TIMEOUT"] = cfg[1]["TIMEOUT"]
        /\ (~FileDefines(1, "TIMEOUT") /\ ~EnvDefines(1, "TIMEOUT"))
              => cfg[1]["MEDIA_TIMEOUT"] = VInt(60)
        /\ (~FileDefines(1, "TIMEOUT") /\ flags.environment
              /\ environ[1]["TIMEOUT"] = EnvStr(<<"1", "0">>))
              => cfg[1]["MEDIA_TIMEOUT"] = VInt(10)

\* C17 happens: the example schema was loaded with TIMEOUT=10 in the
\* environment and nothing else, and the default function of MEDIA_TIMEOUT
\* was called
C17_EnvironmentTimeoutCopied ==
    /\ Loaded(1) /\ Example(schema)
    /\ environ[1]["TIMEOUT"] = EnvStr(<<"1", "0">>) /\ ~EnvDefines(1, "MEDIA_TIMEOUT")
    /\ \A f \in FieldNames : ~FileDefines(1, f)
    /\ evals[1]["MEDIA_TIMEOUT"] = 1
    /\ cfg[1]["MEDIA_TIMEOUT"] = VInt(10)

\* C18: after a load has returned, every field of the schema holds an int
\* and none holds a default function; no default function was called more
\* than once in that load, and one was called exactly when its field had no
\* layered value.
C18_EveryFieldFinal ==
    Loaded(1) => \A f \in Fields(schema) :
        /\ cfg[1][f].t = "int"
        /\ evals[1][f] <= 1
        /\ evals[1][f] = 1
              <=> (DefaultOf(schema, f).kind # "const" /\ ~LayerDefines(1, f))

\* C18 happens: a load has returned in which the default functions of both
\* fields were called
C18_BothDefaultsEvaluated ==
    /\ Loaded(1)
    /\ \A f \in Fields(schema) : evals[1][f] = 1 /\ cfg[1][f].t = "int"

\* C19: a load in which a default function is called and returns a value
\* that is no int (a str that is no number, or the default function of
\* another field) fails with a ValidationError, and no field of the config
\* object ever holds anything but an int or, before and after a failed
\* load, its own default function.
C19_MismatchedDefaultFails ==
    /\ \A f \in FieldNames : cfg[1][f].t \in {"unset", "int", "fn"}
    /\ Reached(1) =>
          /\ (\E f \in Fields(schema) :
                 /\ DefaultOf(schema, f) = FnBad /\ ~LayerDefines(1, f)
                 /\ \A g \in FieldNames :
                       LayerDefines(1, g) => ValidateInt(LayerValue(1, g)).ok)
                => (last[1].err = "ValidationError" /\ ~built[1])
          /\ (\E o \in obs[1] : o.seen.t # "int") => last[1].err = "ValidationError"

\* C19 happens: a default function returning a str that is no number was
\* called and the load failed
C19_BadDefaultEvaluated ==
    /\ Reached(1) /\ last[1].err = "ValidationError"
    /\ \E f \in Fields(schema) :
          DefaultOf(schema, f) = FnBad /\ ~LayerDefines(1, f) /\ evals[1][f] = 1

(***************************************************************************)
(* Properties of the file layer (SpecFlat)                                 *)
(***************************************************************************)
\* a top-level entry of a parsed file is a table named after a config section
IsSectionTable(e) == e.key \in ConfigSectionNames /\ e.val.t = "table"

\* the top-level entries that have a value for key f: a section table with
\* the key f in it, or any other entry named f
Suppliers(doc, f) ==
    {i \in 1..Len(doc) :
        IF IsSectionTable(doc[i]) THEN DictHas(doc[i].val.items, f) ELSE doc[i].key = f}

\* the same without the tables that are not named after a section
KnownSuppliers(doc, f) ==
    {i \in Suppliers(doc, f) : IsSectionTable(doc[i]) \/ doc[i].val.t # "table"}

\* the value for f of the last of the entries S
LastValue(doc, S, f) ==
    IF S = {} THEN NoVal
    ELSE IF IsSectionTable(doc[CHOOSE i \in S : \A j \in S : j <= i])
    THEN DictGet(doc[CHOOSE i \in S : \A j \in S : j <= i].val.items, f)
    ELSE doc[CHOOSE i \in S : \A j \in S : j <= i].val

IntOrUnset(v) == v.t = "unset" \/ ValidateInt(v).ok

\* the last operation of process p has ended
Ended(p) == pc[p] = "idle" /\ last[p].name # ""

\* C20 as stated, for the file whose parsed document is doc: the load fails
\* only if the last value of a field among the top-level keys and the
\* section tables is no int; tables of other names are ignored.
UnknownTablesIgnored(doc) ==
    Ended(1) =>
        (last[1].err = ""
           <=> \A f \in FieldNames : IntOrUnset(LastValue(doc, KnownSuppliers(doc, f), f)))

\* C20 as stated: undeclared keys and tables of unknown names never make
\* the load fail.
C20_UnknownTablesNeverRaise == UnknownTablesIgnored(TomlParse(file.text).doc)

\* C20, amended, for the file whose parsed document is doc
FlattenedLastWins(doc) ==
    /\ prec[1].keys # {} =>
          \A f \in FieldNames :
              prec[1].data[f] = LastValue(doc, Suppliers(doc, f), f)
    /\ Ended(1) =>
          (last[1].err = ""
             <=> \A f \in FieldNames : IntOrUnset(LastValue(doc, Suppliers(doc, f), f)))
    /\ Loaded(1) => \A f \in FieldNames : cfg[1][f] # VInt(77)

\* C20, amended: the file layer's value for a field is the last one among
\* the top-level entries named after the field and the entries of that
\* name in the tables named after config sections, in the order of the
\* file; keys that are no fields, and tables of other names unless they are
\* named after a field, neither make the load fail nor reach the config. A
\* table named after a field is taken as the field's value, and the load
\* fails with a ValidationError.
C20_FlattenedLastWins == FlattenedLastWins(TomlParse(file.text).doc)

\* a file has a field in two places, a key that is no field and a table of
\* an unknown name
Mixed(doc) ==
    /\ \E f \in FieldNames :
          /\ Cardinality(Suppliers(doc, f)) = 2
          /\ cfg[1][f] = IntOf(LastValue(doc, Suppliers(doc, f), f))
    /\ \E i \in 1..Len(doc) : doc[i].key \notin ConfigSectionNames /\ doc[i].val.t = "table"
    /\ \E i \in 1..Len(doc) : IsSectionTable(doc[i]) /\ DictHas(doc[i].val.items, "EXTRA")

\* C20 happens: a config was loaded from such a file
C20_LoadedFromMixedFile == Loaded(1) /\ Mixed(TomlParse(file.text).doc)

(***************************************************************************)
(* Properties of load_ini_value and convert on any legacy value (SpecIni)  *)
(***************************************************************************)
\* the values the legacy file gives to its keys
LegacyValuesOf(text) == {text[i].val : i \in {j \in 1..Len(text) : text[j].k = "kv"}}

\* the first of the four readings that succeeds, else the string itself:
\* boolean word, integer literal, Python literal, JSON
FirstThatSucceeds(val) ==
    IF Lower(val) \in TrueWords THEN VBool(TRUE)
    ELSE IF Lower(val) \in FalseWords THEN VBool(FALSE)
    ELSE IF IsDecimal(val) THEN VInt(DigitsToInt(val))
    ELSE OrElse(PyLiteralEval(val), OrElse(JsonLoads(val), VStr(val)))

SaveMediaFalse == <<Hdr("GENERAL"), KV("SAVE_MEDIA", <<"F", "a", "l", "s", "e">>, FALSE)>>

\* C21: for every value of a legacy file load_ini_value returns the first
\* that succeeds of boolean word, integer literal, Python literal and JSON,
\* else the value itself, and never raises; the file [GENERAL]
\* SAVE_MEDIA=False is converted to a GENERAL table with SAVE_MEDIA = false.
C21_FirstReadingNeverRaises ==
    converted =>
        /\ \A val \in LegacyValuesOf(legacy) :
              /\ load_ini_value(val).t # "raise"
              /\ load_ini_value(val) = FirstThatSucceeds(val)
        /\ legacy = SaveMediaFalse =>
              /\ structured.err = ""
              /\ structured.text =
                    <<Com, Hdr("GENERAL"), KV("SAVE_MEDIA", <<"f", "a", "l", "s", "e">>, TRUE)>>

\* the [section, key] pairs of a legacy file, named as the output names them
LegacyEntries(ini) ==
    UNION {{[section |-> Upper(ini.secs[i].key), key |-> Upper(ini.secs[i].val[j].key)] :
                j \in 1..Len(ini.secs[i].val)} : i \in 1..Len(ini.secs)}

DocEntries(doc) == {[section |-> m.section, key |-> m.key] : m \in DocMapping(doc)}

\* C22: for every legacy file that parses as INI, whatever the case of its
\* names and whatever its values, convert returns a text that parses as
\* TOML and has an entry for every key of every section.
C22_ConvertNeverFails ==
    (converted /\ IniParse(legacy).err = "")
        => /\ structured.err = ""
           /\ TomlParse(structured.text).ok
           /\ LegacyEntries(IniParse(legacy))
                 \subseteq DocEntries(TomlParse(structured.text).doc)

(***************************************************************************)
(* Properties of the browser providers, continued (SpecBin)                *)
(***************************************************************************)
\* the line "<name>@<version> /<path>" for a browser of the provider
PathLine(prov, name, ver) ==
    name \o <<"@">> \o ver \o <<" ", "/">> \o PathStr(ChromePath(prov, ver))

\* C23: after an install whose subprocess exited with 0 the cache holds the
\* path of the line "<name>@<version> <path>" when that is the output's
\* last line, and otherwise a binary that is in the provider's directory.
C23_CachedPathReportedOrOnDisk ==
    (Made.op = "install" /\ Made.rc = 0)
        => /\ Made.err = ""
           /\ abspaths[Made.prov][Made.name].set
           /\ IF \E ver \in Versions : Made.out = PathLine(Made.prov, Made.name, ver)
              THEN \E ver \in Versions :
                      /\ Made.out = PathLine(Made.prov, Made.name, ver)
                      /\ abspaths[Made.prov][Made.name].path = ChromePath(Made.prov, ver)
              ELSE abspaths[Made.prov][Made.name].path \in browsers[Made.prov]

\* the first half of C23 alone
C23_ReportedPathCached ==
    (Made.op = "install" /\ Made.rc = 0)
        => /\ Made.err = ""
           /\ abspaths[Made.prov][Made.name].set
           /\ \A ver \in Versions :
                 Made.out = PathLine(Made.prov, Made.name, ver)
                    => abspaths[Made.prov][Made.name].path = ChromePath(Made.prov, ver)

(***************************************************************************)
(* Properties of the loading of binary descriptors (SpecLoad)              *)
(***************************************************************************)
\* the positions in the binary's list of the providers that have it
PresentAt(bin) ==
    {i \in 1..Len(binproviders_supported(bin)) :
        [bin |-> bin, provider |-> binproviders_supported(bin)[i]] \in present}

\* C24: a loaded descriptor records the provider that comes first in its
\* declared list among those that have the binary, and that provider's
\* path; no provider after it was asked; a descriptor records none only
\* when no provider of its list has the binary.
C24_FirstPresentProviderWins ==
    \A bin \in Binaries :
        loaded[bin].tried =>
            IF PresentAt(bin) = {} THEN ~loaded[bin].set
            ELSE /\ loaded[bin].set
                 /\ \E i \in PresentAt(bin) :
                       /\ \A j \in PresentAt(bin) : i <= j
                       /\ loaded[bin].provider = binproviders_supported(bin)[i]
                       /\ loaded[bin].abspath = AbspathAt(binproviders_supported(bin)[i], bin)
                       /\ loaded[bin].asked = i

\* yt-dlp is loaded from apt while brew and env have it too and pip has not
C24_LaterProvidersPassedOver ==
    /\ loaded["yt-dlp"].set
    /\ loaded["yt-dlp"].provider = "apt"
    /\ PresentAt("yt-dlp") = {2, 3, 4}

(***************************************************************************)
(* Properties of the browser providers, continued (SpecBin)                *)
(***************************************************************************)
\* the chrome binaries among files, as a set
ChromeSet(prov, files) ==
    {ChromeBins(prov, files)[i] : i \in 1..Len(ChromeBins(prov, files))}

\* C25 as stated: a lookup of chrome without a cache entry that finds chrome
\* binaries in the provider's directory returns and caches the one whose
\* path is last in path order; one that finds none returns no path, and
\* puppeteer's caches nothing then.
C25_GreatestMatchOrNothing ==
    (Made.op = "get_abspath" /\ Made.name = Chrome /\ ~Made.before.set)
        => /\ Made.err = ""
           /\ IF ChromeSet(Made.prov, Made.disk) # {}
              THEN /\ Made.ret.set
                   /\ Made.ret.path \in ChromeSet(Made.prov, Made.disk)
                   /\ \A q \in ChromeSet(Made.prov, Made.disk) \ {Made.ret.path} :
                         PathLess(q, Made.ret.path)
                   /\ abspaths[Made.prov][Chrome] = Made.ret
              ELSE /\ ~Made.ret.set
                   /\ Made.prov = "puppeteer" => ~abspaths[Made.prov][Chrome].set

\* C25, amended: a lookup of chrome without a cache entry that finds chrome
\* binaries in the provider's directory returns and caches the one whose
\* path is last in path order, whatever the versions; one that finds none
\* returns no path and caches nothing, except playwright's on a host with
\* google-chrome-stable in $PATH, which returns and caches that path.
C25_LexicallyGreatestMatch ==
    (Made.op = "get_abspath" /\ Made.name = Chrome /\ ~Made.before.set)
        => /\ Made.err = ""
           /\ IF ChromeSet(Made.prov, Made.disk) # {}
              THEN /\ Made.ret.set
                   /\ Made.ret.path \in ChromeSet(Made.prov, Made.disk)
                   /\ \A q \in ChromeSet(Made.prov, Made.disk) \ {Made.ret.path} :
                         PathLess(q, Made.ret.path)
                   /\ abspaths[Made.prov][Chrome] = Made.ret
              ELSE IF Made.prov = "playwright" /\ host.syschrome
              THEN Made.ret = SomePath(SysChrome) /\ abspaths[Made.prov][Chrome] = Made.ret
              ELSE ~Made.ret.set /\ ~abspaths[Made.prov][Chrome].set

\* a lookup that found versions 9 and 10 and returned version 9
C25_OlderVersionReturned ==
    /\ Made.op = "get_abspath" /\ ~Made.before.set
    /\ ChromeSet(Made.prov, Made.disk) = {ChromePath(Made.prov, v) : v \in Versions}
    /\ Made.ret = SomePath(ChromePath(Made.prov, <<"9">>))
    /\ abspaths[Made.prov][Chrome] = Made.ret

\* C26: on a host where the provider's INSTALLER_BIN is not found an
\* install raises, runs no subprocess and leaves the name's cache entry as
\* it was.
C26_NoInstallerNoInstall ==
    (Made.op = "install" /\ ~host.installer)
        => /\ Made.err # ""
           /\ Made.execs = 0
           /\ Made.rc = -1
           /\ abspaths[Made.prov][Made.name] = Made.before

\* an install of chrome that went past setup() and the check of the name
\* and raised for want of the installer
C26_InstallerMissing ==
    /\ Made.op = "install" /\ Made.name = Chrome
    /\ host.sys /\ ~host.installer
    /\ Made.err = "Exception"
    /\ Made.execs = 0

(***************************************************************************)
(* Properties of config loading, continued (Spec)                          *)
(***************************************************************************)
\* C27: for a config set that opts out of a layer, whether the config file
\* is absent or a structured file, no operation fails in building the list
\* of sources (lines 180-185 raise no KeyError).
C27_OptOutBuildsSources ==
    \A p \in Procs :
        (/\ ~flags.defaults \/ ~flags.configfile \/ ~flags.environment
         /\ ~orig.exists \/ TomlParse(orig.text).ok)
            => last[p].err # "KeyError"

\* the config file is no TOML and convert raises on it
Unreadable(f) == f.exists /\ ~TomlParse(f.text).ok /\ convert(f.text).err # ""

\* C28: when the config file is no TOML and cannot be converted as a legacy
\* file, every load fails with an error and the config file keeps the
\* content it had.
C28_UnreadableFileUntouched ==
    Unreadable(orig)
        => /\ file = orig
           /\ \A p \in Procs : last[p].seq > 0 => last[p].err # ""
           /\ \A p \in Procs : ~built[p]

\* a load of a file that is neither has failed in configparser
C28_LoadOfGarbageFailed ==
    /\ orig = File(Garbage)
    /\ last[1].seq > 0
    /\ last[1].err = "ParsingError"
    /\ file = orig

(***************************************************************************)
(* Properties of two processes migrating at the same time (SpecMig)        *)
(***************************************************************************)
\* every process has finished an operation and none is in one
Quiet == \A p \in Procs : pc[p] = "idle" /\ last[p].seq > 0

\* the legacy file converts to a text that is TOML
Convertible(f) ==
    IsLegacy(f) /\ convert(f.text).err = "" /\ TomlParse(convert(f.text).text).ok

\* C29 as stated: when the config file was a legacy INI file (one that
\* converts to TOML) and two processes have loaded it, in whatever order
\* their steps were taken, the backup holds the original content and the
\* config file holds the conversion of the original content.
C29_MigrationSafeUnderRace ==
    (Convertible(orig) /\ Quiet)
        => /\ bak = orig
           /\ file = File(convert(orig.text).text)

\* C29, amended: when both processes have run the migration on the
\* original content, each having read the config file (line 169) before
\* the other began to overwrite it, then once both are done the backup holds
\* the original content and the config file holds its conversion, or the
\* original content if that cannot be converted.
C29_BothReadOriginal ==
    (IsLegacy(orig) /\ Quiet /\ \A p \in Procs : buf[p] = orig.text)
        => /\ bak = orig
           /\ convert(orig.text).err = "" => file = File(convert(orig.text).text)
           /\ convert(orig.text).err # "" => file = orig

\* both processes have migrated the original file, their steps interleaved
C29_BothMigratedOriginal ==
    /\ IsLegacy(orig) /\ Quiet
    /\ \A p \in Procs : buf[p] = orig.text /\ last[p].seq = 2
    /\ file = File(convert(orig.text).text)
    /\ bak = orig

\* a process has copied the other's converted text to the backup
C29_BackupLost ==
    /\ IsLegacy(orig) /\ Quiet
    /\ convert(orig.text).err = ""
    /\ bak = File(convert(orig.text).text)

(***************************************************************************)
(* Properties of update_in_place (Spec)                                    *)
(***************************************************************************)
\* process p's update_in_place raises in this step
UpdateFails(p) ==
    /\ last'[p] # last[p]
    /\ last'[p].name = "update_in_place"
    /\ last'[p].err # ""
    /\ pc[p] = "idle"

\* C30: a call of update_in_place that raises for a key that is no field
\* leaves the process environment and the fields of the config object as
\* they were before the call.
C30_FailedUpdateChangesNothing ==
    [][\A p \in Procs : UpdateFails(p) => (environ' = environ /\ cfg' = cfg)]_vars

====
